---------------------------- MODULE Spec2Model ----------------------------
(***************************************************************************)
(* Click-analytics service (services/analytics-service): the access        *)
(* control middleware, the two rate limiters, the track handler and the    *)
(* four read handlers over the Click collection.                           *)
(*                                                                         *)
(* Time is counted in minutes.  A nullable JavaScript value is the empty   *)
(* sequence (null / undefined) or a one-element sequence holding the       *)
(* value.  Every await of a handler is one step: the store operation       *)
(* takes effect and the handler runs on to its next await (Node runs the   *)
(* code between two awaits without interleaving).                          *)
(***************************************************************************)
EXTENDS Integers, Sequences, FiniteSets, TLC

Null == <<>>
Some(v) == <<v>>

(***************************************************************************)
(* Bounds of the model.                                                    *)
(***************************************************************************)
\* requests that arrive in one behaviour
MaxRequests == 2
\* requests that are awaiting the store at the same time
MaxInflight == 2
\* clock advances in one behaviour
MaxTicks == 1
\* requests that arrive in one behaviour of the access specification
MaxCallers == 1
\* week-old records of short code "a" in the collection when the behaviour
\* starts (the collection outlives the process)
BulkCount == 101
\* words of a user agent given to a parser by itself
MaxWords == 2

(***************************************************************************)
(* Time.                                                                   *)
(***************************************************************************)
H24 == 24 * 60
D7 == 7 * 24 * 60
DayLen == 24 * 60
Start == 100 * DayLen + 600
\* a short delay (one minute), one day, one week
TickSteps == {1, H24, D7}

\* $dateToString '%Y-%m-%d' of a timestamp: its UTC calendar day
DateToString(t) == t \div DayLen

(***************************************************************************)
(* config.js                                                               *)
(***************************************************************************)
internalApiKey == "internal-service-key"
jwtSecret == "jwt-secret"

(***************************************************************************)
(* Addresses and the GeoLite2 database.                                    *)
(***************************************************************************)
V4(a, b, c, d) == [fam |-> "v4", oct |-> <<a, b, c, d>>, txt |-> ""]
Txt(s) == [fam |-> "txt", oct |-> <<>>, txt |-> s]

AddrPrivate == V4(10, 0, 0, 5)
AddrUS == V4(8, 8, 8, 8)
AddrAU == V4(1, 1, 1, 1)
AddrUnknown == V4(9, 9, 9, 9)

\* the regular expressions of privateRanges, on the modelled addresses
isPrivateIP(ip) ==
    IF ip = Null \/ ip = Some(Txt("")) THEN TRUE
    ELSE LET a == ip[1] IN
         \/ a.fam = "v4" /\ a.oct[1] = 10
         \/ a.fam = "v4" /\ a.oct[1] = 172 /\ a.oct[2] \in 16..31
         \/ a.fam = "v4" /\ a.oct[1] = 192 /\ a.oct[2] = 168
         \/ a.fam = "v4" /\ a.oct[1] = 127
         \/ a.fam = "txt" /\ a.txt \in {"localhost", "LOCALHOST", "::1"}
         \/ a.fam = "txt" /\ a.txt \in {"fe80::1", "FE80::1"}

\* further countries and city names of the database: the addresses
\* (20 + i).j.0.1 lie in country i, and in its city j for j in 1..3
WorldCountries ==
    <<"Argentina", "Austria", "Belgium", "Brazil", "Canada", "Chile", "China",
      "Denmark", "Finland", "France", "Germany", "India", "Italy", "Japan",
      "Mexico", "Netherlands", "Norway", "Spain", "Sweden", "Switzerland",
      "United Kingdom">>
WorldCodes ==
    <<"AR", "AT", "BE", "BR", "CA", "CL", "CN", "DK", "FI", "FR", "DE", "IN",
      "IT", "JP", "MX", "NL", "NO", "ES", "SE", "CH", "GB">>
CityNames == <<"Springfield", "Victoria", "San Jose">>
AddrWorld(i, j) == V4(20 + i, j, 0, 1)

\* reader.city(ip): the city response of the database, or the error thrown
ReaderCity(a) ==
    IF a.fam = "v4" /\ a.oct[1] - 20 \in 1..Len(WorldCountries)
    THEN [ok |-> TRUE,
          country |-> Some(WorldCountries[a.oct[1] - 20]),
          isoCode |-> Some(WorldCodes[a.oct[1] - 20]),
          city |-> IF a.oct[2] \in 1..Len(CityNames)
                   THEN Some(CityNames[a.oct[2]]) ELSE Null,
          subdivision |-> Null,
          latitude |-> Some(a.oct[1]), longitude |-> Some(a.oct[2] + 1),
          timeZone |-> Null]
    ELSE IF a = AddrUS
    THEN [ok |-> TRUE,
          country |-> Some("United States"), isoCode |-> Some("US"),
          city |-> Some("New York"), subdivision |-> Some("NY"),
          latitude |-> Some(40), longitude |-> Some(-74),
          timeZone |-> Some("America/New_York")]
    ELSE IF a = AddrAU
    THEN [ok |-> TRUE,
          country |-> Some("Australia"), isoCode |-> Some("AU"),
          city |-> Null, subdivision |-> Null,
          latitude |-> Some(-33), longitude |-> Some(143),
          timeZone |-> Some("Australia/Sydney")]
    ELSE IF a.fam = "v4" THEN [ok |-> FALSE, name |-> "AddressNotFoundError"]
    ELSE [ok |-> FALSE, name |-> "ValueError"]

\* x || null, for a string and for a number
StrOrNull(o) == IF o = Null \/ o = Some("") THEN Null ELSE o
NumOrNull(o) == IF o = Null \/ o = Some(0) THEN Null ELSE o

NoGeo ==
    [country |-> Null, countryCode |-> Null, city |-> Null, region |-> Null,
     latitude |-> Null, longitude |-> Null, timezone |-> Null]

\* lookupIP without its try and catch: what reader.city throws reaches the
\* caller
lookupIPUncaught(rdr, ip) ==
    IF rdr = Null \/ ip = Null \/ ip = Some(Txt("")) THEN Null
    ELSE IF isPrivateIP(ip) THEN Null
    ELSE LET response == ReaderCity(ip[1]) IN
         IF ~response.ok THEN <<"throws", response.name>>
         ELSE Some([country |-> StrOrNull(response.country),
                    countryCode |-> StrOrNull(response.isoCode),
                    city |-> StrOrNull(response.city),
                    region |-> StrOrNull(response.subdivision),
                    latitude |-> NumOrNull(response.latitude),
                    longitude |-> NumOrNull(response.longitude),
                    timezone |-> StrOrNull(response.timeZone)])

\* lookupIP: null, or the location structure
lookupIP(rdr, ip) ==
    IF rdr = Null \/ ip = Null \/ ip = Some(Txt("")) THEN Null
    ELSE IF isPrivateIP(ip) THEN Null
    ELSE LET response == ReaderCity(ip[1]) IN
         IF ~response.ok THEN Null
         ELSE Some([country |-> StrOrNull(response.country),
                    countryCode |-> StrOrNull(response.isoCode),
                    city |-> StrOrNull(response.city),
                    region |-> StrOrNull(response.subdivision),
                    latitude |-> NumOrNull(response.latitude),
                    longitude |-> NumOrNull(response.longitude),
                    timezone |-> StrOrNull(response.timeZone)])

(***************************************************************************)
(* User agents: a user agent is the sequence of its words; Lower is        *)
(* toLowerCase on the words in use, and Includes(ua, s) is                 *)
(* ua.includes(s) for the substrings the two parsers look for.             *)
(***************************************************************************)
Lower(w) ==
    CASE w = "Firefox" -> "firefox"
      [] w = "Edg" -> "edg"
      [] w = "Chrome" -> "chrome"
      [] w = "Safari" -> "safari"
      [] w = "Opera" -> "opera"
      [] w = "OPR" -> "opr"
      [] w = "MSIE" -> "msie"
      [] w = "Trident" -> "trident"
      [] w = "Mobile" -> "mobile"
      [] w = "Android" -> "android"
      [] w = "Tablet" -> "tablet"
      [] w = "iPad" -> "ipad"
      [] w = "Googlebot" -> "googlebot"
      [] w = "Crawler" -> "crawler"
      [] w = "Spider" -> "spider"
      [] w = "FIREFOX" -> "firefox"
      [] w = "CHROME" -> "chrome"
      [] w = "IPAD" -> "ipad"
      [] OTHER -> w

\* the searched substrings a lower-case word contains
Substrings(w) ==
    CASE w = "googlebot" -> {"bot"}
      [] w = "edge" -> {"edg"}
      [] OTHER -> {w}

Includes(ua, s) == \E i \in 1..Len(ua) : s \in Substrings(ua[i])

ToLowerCase(ua) == [i \in 1..Len(ua) |-> Lower(ua[i])]

\* a parser that looks for Chrome before Edge
parseBrowserChromeFirst(userAgent) ==
    IF userAgent = Null \/ userAgent = Some(<<>>) THEN "unknown"
    ELSE LET ua == ToLowerCase(userAgent[1]) IN
         IF Includes(ua, "firefox") THEN "Firefox"
         ELSE IF Includes(ua, "chrome") THEN "Chrome"
         ELSE IF Includes(ua, "edg") THEN "Edge"
         ELSE IF Includes(ua, "safari") THEN "Safari"
         ELSE IF Includes(ua, "opera") \/ Includes(ua, "opr") THEN "Opera"
         ELSE IF Includes(ua, "msie") \/ Includes(ua, "trident") THEN "IE"
         ELSE "other"

parseBrowser(userAgent) ==
    IF userAgent = Null \/ userAgent = Some(<<>>) THEN "unknown"
    ELSE LET ua == ToLowerCase(userAgent[1]) IN
         IF Includes(ua, "firefox") THEN "Firefox"
         ELSE IF Includes(ua, "edg") THEN "Edge"
         ELSE IF Includes(ua, "chrome") THEN "Chrome"
         ELSE IF Includes(ua, "safari") THEN "Safari"
         ELSE IF Includes(ua, "opera") \/ Includes(ua, "opr") THEN "Opera"
         ELSE IF Includes(ua, "msie") \/ Includes(ua, "trident") THEN "IE"
         ELSE "other"

parseDevice(userAgent) ==
    IF userAgent = Null \/ userAgent = Some(<<>>) THEN "unknown"
    ELSE LET ua == ToLowerCase(userAgent[1]) IN
         IF \/ Includes(ua, "mobile")
            \/ (Includes(ua, "android") /\ ~Includes(ua, "tablet"))
         THEN "mobile"
         ELSE IF Includes(ua, "tablet") \/ Includes(ua, "ipad") THEN "tablet"
         ELSE IF \/ Includes(ua, "bot")
                 \/ Includes(ua, "crawler")
                 \/ Includes(ua, "spider")
         THEN "bot"
         ELSE "desktop"

(***************************************************************************)
(* The Click collection: the stored documents with their multiplicity      *)
(* (documents that agree on every field differ in _id only).               *)
(***************************************************************************)
RECURSIVE SumCounts(_, _)
SumCounts(s, D) ==
    IF D = {} THEN 0
    ELSE LET r == CHOOSE x \in D : TRUE IN s[r] + SumCounts(s, D \ {r})

\* a save that keeps one copy of equal clicks
InsertDistinct(s, doc) == IF doc \in DOMAIN s THEN s ELSE s @@ (doc :> 1)

\* a save that replaces the earlier clicks of the short code
InsertLatest(s, doc) ==
    [d \in {r \in DOMAIN s : r.shortCode # doc.shortCode} \cup {doc} |->
        IF d = doc THEN 1 ELSE s[d]]

\* click.save()
Insert(s, doc) ==
    IF doc \in DOMAIN s THEN [s EXCEPT ![doc] = @ + 1] ELSE s @@ (doc :> 1)

\* Click.countDocuments(filter)
CountDocuments(s, matching) == SumCounts(s, DOMAIN s \cap matching)

Min(a, b) == IF a <= b THEN a ELSE b
Max(a, b) == IF a >= b THEN a ELSE b

\* the sequences that hold every document of b as often as b says
RECURSIVE Arrangements(_)
Arrangements(b) ==
    IF DOMAIN b = {} THEN {<<>>}
    ELSE IF Cardinality(DOMAIN b) = 1
    THEN LET r == CHOOSE x \in DOMAIN b : TRUE IN {[i \in 1..b[r] |-> r]}
    ELSE UNION {{<<r>> \o rest :
                    rest \in Arrangements(
                        IF b[r] = 1 THEN [x \in DOMAIN b \ {r} |-> b[x]]
                        ELSE [b EXCEPT ![r] = @ - 1])} : r \in DOMAIN b}

\* sort({ timestamp: -1 }) over the documents of D, each as often as it is
\* stored: newest first, and documents of one timestamp in any order (the
\* sort has no further key); the orders a query may come back in
RECURSIVE SortNewestFirst(_, _)
SortNewestFirst(s, D) ==
    IF D = {} THEN {<<>>}
    ELSE LET r == CHOOSE x \in D : \A y \in D : x.timestamp >= y.timestamp
             T == {x \in D : x.timestamp = r.timestamp}
         IN {first \o rest : first \in Arrangements([x \in T |-> s[x]]),
                             rest \in SortNewestFirst(s, D \ T)}

\* .select('timestamp userAgent referer country city')
Select(doc) ==
    [timestamp |-> doc.timestamp, userAgent |-> doc.userAgent,
     referer |-> doc.referer, country |-> doc.country, city |-> doc.city]

\* cursor.limit(n): 0 is no limit, a negative n is a limit of -n
ApplyLimit(docs, n) ==
    IF n = 0 THEN docs
    ELSE SubSeq(docs, 1, Min(Len(docs), IF n < 0 THEN 0 - n ELSE n))

\* cursor.skip(k), k >= 0
ApplySkip(docs, k) == SubSeq(docs, Min(k, Len(docs)) + 1, Len(docs))

\* Click.find({shortCode}).sort({timestamp: -1}).skip(k).limit(n).select(..)
\* the pages the query may come back with
FindHistory(s, shortCode, k, n) ==
    {LET page == ApplyLimit(ApplySkip(docs, k), n)
     IN [i \in 1..Len(page) |-> Select(page[i])] :
        docs \in SortNewestFirst(s, {r \in DOMAIN s : r.shortCode = shortCode})}

\* a findOne that answers the epoch when nothing matches
FindLastClickOrEpoch(s, shortCode) ==
    LET D == {r \in DOMAIN s : r.shortCode = shortCode} IN
    IF D = {} THEN Some(0)
    ELSE Some((CHOOSE x \in D : \A y \in D : x.timestamp >= y.timestamp).timestamp)

\* Click.findOne({shortCode}).sort({timestamp: -1}).select('timestamp')
FindLastClick(s, shortCode) ==
    LET D == {r \in DOMAIN s : r.shortCode = shortCode} IN
    IF D = {} THEN Null
    ELSE Some((CHOOSE x \in D : \A y \in D : x.timestamp >= y.timestamp).timestamp)

\* $group: one {_id, count} per key of the matched documents
Group(s, D, key) ==
    {[_id |-> k, count |-> SumCounts(s, {r \in D : key[r] = k})] :
        k \in {key[r] : r \in D}}

\* $sort {count: -1}
RECURSIVE SortByCountDesc(_)
SortByCountDesc(G) ==
    IF G = {} THEN <<>>
    ELSE LET g == CHOOSE x \in G : \A y \in G : x.count >= y.count
         IN <<g>> \o SortByCountDesc(G \ {g})

\* $sort {_id: 1}
RECURSIVE SortByIdAsc(_)
SortByIdAsc(G) ==
    IF G = {} THEN <<>>
    ELSE LET g == CHOOSE x \in G : \A y \in G : x._id <= y._id
         IN <<g>> \o SortByIdAsc(G \ {g})

\* a pipeline stage that passes everything on
TakeAll(seq, n) == seq

\* $limit
Take(seq, n) == SubSeq(seq, 1, Min(n, Len(seq)))

\* the daily pipeline without the timestamp of its $match
AggregateDailyAllTime(s, shortCode, startDate) ==
    LET D == {r \in DOMAIN s : r.shortCode = shortCode}
    IN SortByIdAsc(Group(s, D, [r \in D |-> DateToString(r.timestamp)]))

\* the daily pipeline: $match, $group by calendar day, $sort by day
AggregateDaily(s, shortCode, startDate) ==
    LET D == {r \in DOMAIN s :
                 r.shortCode = shortCode /\ r.timestamp >= startDate}
    IN SortByIdAsc(Group(s, D, [r \in D |-> DateToString(r.timestamp)]))

CountryLimit == 20
CityLimit == 10

\* the country pipeline without its $match on country
AggregateCountriesUnmatched(s, shortCode) ==
    LET D == {r \in DOMAIN s : r.shortCode = shortCode}
    IN Take(SortByCountDesc(Group(s, D,
              [r \in D |-> [country |-> r.country,
                            countryCode |-> r.countryCode]])),
            CountryLimit)

\* the country pipeline: $match country != null, $group, $sort, $limit 20
AggregateCountries(s, shortCode) ==
    LET D == {r \in DOMAIN s : r.shortCode = shortCode /\ r.country # Null}
    IN Take(SortByCountDesc(Group(s, D,
              [r \in D |-> [country |-> r.country,
                            countryCode |-> r.countryCode]])),
            CountryLimit)

\* the city pipeline: $match city != null, $group, $sort, $limit 10
AggregateCities(s, shortCode) ==
    LET D == {r \in DOMAIN s : r.shortCode = shortCode /\ r.city # Null}
    IN Take(SortByCountDesc(Group(s, D,
              [r \in D |-> [city |-> r.city, country |-> r.country]])),
            CityLimit)

(***************************************************************************)
(* Query-string numbers.  A parameter is the text of an optional minus     *)
(* sign, decimal digits and trailing characters; parseInt(text, 10) reads  *)
(* the sign and the digits and ignores what follows them.                  *)
(***************************************************************************)
RECURSIVE DigitsValue(_)
DigitsValue(ds) ==
    IF ds = <<>> THEN 0
    ELSE 10 * DigitsValue(SubSeq(ds, 1, Len(ds) - 1)) + ds[Len(ds)]

parseInt(text) ==
    IF text.neg THEN 0 - DigitsValue(text.digits) ELSE DigitsValue(text.digits)

Num(neg, ds) == [neg |-> neg, digits |-> ds, rest |-> ""]

\* const { limit = 100 } = req.query; Math.min(parseInt(limit, 10), 100)
DefaultLimit == 100
LimitCap == 100
cappedLimit(q) ==
    Min(IF q = Null THEN DefaultLimit ELSE parseInt(q[1]), LimitCap)

\* const { offset = 0 } = req.query; parseInt(offset, 10)
parsedOffset(q) == IF q = Null THEN 0 ELSE parseInt(q[1])

\* const { days = 30 } = req.query; Math.min(parseInt(days, 10), 90)
DefaultDays == 30
DaysCap == 90
cappedDays(q) ==
    Min(IF q = Null THEN DefaultDays ELSE parseInt(q[1]), DaysCap)

(***************************************************************************)
(* Access control (middleware/auth.js).                                    *)
(***************************************************************************)
\* jwt.verify(token, secret) at time t: the decoded payload, or the error of
\* the first check that fails: structure and signature, then nbf, then exp
JwtVerify(token, secret, t) ==
    IF ~token.wellFormed \/ token.key # secret
    THEN [ok |-> FALSE, name |-> "JsonWebTokenError"]
    ELSE IF token.nbf # Null /\ token.nbf[1] > t
    THEN [ok |-> FALSE, name |-> "NotBeforeError"]
    ELSE IF token.exp # Null /\ t >= token.exp[1]
    THEN [ok |-> FALSE, name |-> "TokenExpiredError"]
    ELSE [ok |-> TRUE, name |-> "", userId |-> token.userId]

\* verifyInternalApiKey
verifyInternalApiKey(req) ==
    /\ req.apiKey # Null
    /\ req.apiKey # Some("")
    /\ req.apiKey = Some(internalApiKey)

Reject(status, error) ==
    [next |-> FALSE, status |-> status, error |-> error,
     isInternalService |-> FALSE, user |-> Null]

Proceed(internal, user) ==
    [next |-> TRUE, status |-> 0, error |-> "",
     isInternalService |-> internal, user |-> user]

\* requireAuth
requireAuth(req, t) ==
    LET authHeader == req.authorization IN
    IF authHeader = Null \/ authHeader[1].scheme # "Bearer"
    THEN Reject(401, "Authentication required")
    ELSE IF jwtSecret = ""
    THEN Reject(500, "Server configuration error")
    ELSE LET decoded == JwtVerify(authHeader[1].token, jwtSecret, t) IN
         IF decoded.ok THEN Proceed(FALSE, Some([userId |-> decoded.userId]))
         ELSE IF decoded.name = "JsonWebTokenError"
         THEN Reject(401, "Invalid token")
         ELSE IF decoded.name = "TokenExpiredError"
         THEN Reject(401, "Token expired")
         ELSE Reject(500, "Authentication failed")

\* a middleware that examines the bearer token first and the key only when
\* the token is refused
allowInternalServiceTokenFirst(req, t) ==
    IF requireAuth(req, t).next THEN requireAuth(req, t)
    ELSE IF verifyInternalApiKey(req) THEN Proceed(TRUE, Null)
    ELSE requireAuth(req, t)

\* allowInternalService
allowInternalService(req, t) ==
    IF verifyInternalApiKey(req) THEN Proceed(TRUE, Null)
    ELSE requireAuth(req, t)

\* a middleware that refuses what requireAuth refuses
optionalAuthStrict(req, t) == requireAuth(req, t)

\* optionalAuth
optionalAuth(req, t) ==
    LET authHeader == req.authorization IN
    IF authHeader = Null \/ authHeader[1].scheme # "Bearer"
    THEN Proceed(FALSE, Null)
    ELSE LET decoded == JwtVerify(authHeader[1].token, jwtSecret, t) IN
         IF decoded.ok THEN Proceed(FALSE, Some([userId |-> decoded.userId]))
         ELSE Proceed(FALSE, Null)

(***************************************************************************)
(* Rate limiting (middleware/rateLimit.js).                                *)
(***************************************************************************)
ApiMax == 100
TrackMax == 60
LimiterMax(l) == IF l = "track" THEN TrackMax ELSE ApiMax
\* windowMs, in minutes
ApiWindow == 15
TrackWindow == 1
LimiterWindow(l) == IF l = "track" THEN TrackWindow ELSE ApiWindow
LimiterMessage(l) ==
    IF l = "track" THEN "Too many tracking requests."
    ELSE "Too many requests, please try again later."

\* req.ip without 'trust proxy': the peer
ReqIpPeer(req) == req.peer

\* req.ip under 'trust proxy': the first forwarded address, else the peer
ReqIp(req) == IF req.xff # <<>> THEN Some(req.xff[1]) ELSE req.peer

Hits(h, l, key) == IF key \in DOMAIN h[l] THEN h[l][key] ELSE 0

\* a limiter without skip
LimiterSkipNone(isInternalService) == FALSE

\* skip: (req) => req.isInternalService === true
LimiterSkip(isInternalService) == isInternalService = TRUE

\* one request through limiter l: skipped, or counted and then admitted
\* while the count is within max
RateLimit(l, h, isInternalService, key) ==
    IF LimiterSkip(isInternalService)
    THEN [next |-> TRUE, hits |-> h, status |-> 0, error |-> ""]
    ELSE LET totalHits == Hits(h, l, key) + 1
             h2 == [h EXCEPT ![l] = (key :> totalHits) @@ @]
         IN IF totalHits > LimiterMax(l)
            THEN [next |-> FALSE, hits |-> h2, status |-> 429,
                  error |-> LimiterMessage(l)]
            ELSE [next |-> TRUE, hits |-> h2, status |-> 0, error |-> ""]

(***************************************************************************)
(* State.                                                                  *)
(***************************************************************************)
VARIABLES
    now,                 \* Date.now()
    ticks,               \* clock advances so far
    store,               \* the Click collection
    inflight,            \* the requests awaiting the store, by request id
    arrived,             \* requests received so far
    resp,                \* the response the last step sent, if it sent one
    hits,                \* the limiters' counters, per limiter and key
    passed,              \* the requests each limiter has admitted, with
                         \* their key and time
    call,                \* the utility call the last step made, if any
    queriesTotal,        \* analytics_queries_total, by endpoint
    eventsTrackedTotal,  \* analytics_events_tracked_total
    eventsByCountry,     \* analytics_events_by_country_total
    eventsByBrowser,     \* analytics_events_by_browser_total
    eventsByDevice,      \* analytics_events_by_device_total
    processingDuration,  \* observations of the processing histogram
    reader,              \* geolocation.js: reader
    isInitialized        \* geolocation.js: isInitialized

metrics ==
    <<queriesTotal, eventsTrackedTotal, eventsByCountry, eventsByBrowser,
      eventsByDevice, processingDuration>>
eventMetrics ==
    <<eventsTrackedTotal, eventsByCountry, eventsByBrowser, eventsByDevice,
      processingDuration>>
geoip == <<reader, isInitialized>>
clock == <<now, ticks>>
limiter == <<hits, passed>>
vars ==
    <<now, ticks, store, inflight, arrived, resp, hits, passed, call, metrics,
      geoip>>

\* a counter that goes up by two
IncTwice(counter, label) ==
    IF label \in DOMAIN counter THEN [counter EXCEPT ![label] = @ + 2]
    ELSE counter @@ (label :> 2)

\* counter.labels(label).inc()
Inc(counter, label) ==
    IF label \in DOMAIN counter THEN [counter EXCEPT ![label] = @ + 1]
    ELSE counter @@ (label :> 1)
Value(counter, label) == IF label \in DOMAIN counter THEN counter[label] ELSE 0

(***************************************************************************)
(* The requests of the model.                                              *)
(***************************************************************************)
\* a token: whether it parses, the key that signed it, and its exp and nbf
\* claims
Token(wellFormed, key, exp, nbf) ==
    [wellFormed |-> wellFormed, key |-> key, exp |-> exp, nbf |-> nbf,
     userId |-> "user123"]
ValidToken == Token(TRUE, jwtSecret, Some(Start + 60), Null)
ExpiredToken == Token(TRUE, jwtSecret, Some(Start - 60), Null)
NotYetValidToken == Token(TRUE, jwtSecret, Null, Some(Start + 30))
ForgedToken == Token(TRUE, "wrong-secret", Null, Null)
MalformedToken == Token(FALSE, "", Null, Null)
Tokens ==
    {ValidToken, ExpiredToken, NotYetValidToken, ForgedToken, MalformedToken}

Authorizations ==
    {Null, Some([scheme |-> "NotBearer", token |-> ValidToken])}
      \cup {Some([scheme |-> "Bearer", token |-> t]) : t \in Tokens}
ApiKeys == {Null, Some("wrong-key"), Some(internalApiKey)}
ForwardedFor == {<<>>, <<AddrUS>>, <<AddrAU, AddrPrivate>>}
Peers == {Some(AddrPrivate)}
UserAgents == {Null, Some(<<"Android", "Mobile", "Chrome">>)}
ShortCodes == {"a", "b"}
Bodies ==
    {[short_code |-> Some("a"), original_url |-> Some("https://x.com")],
     [short_code |-> Some("b"), original_url |-> Some("https://x.com")],
     [short_code |-> Null, original_url |-> Some("https://x.com")],
     [short_code |-> Some("a"), original_url |-> Some("")]}
Limits == {Null, Some(Num(FALSE, <<2, 0, 0>>)), Some(Num(FALSE, <<2>>)),
           Some(Num(FALSE, <<0>>)), Some(Num(TRUE, <<2, 0, 0>>))}
Offsets == {Null, Some(Num(FALSE, <<1>>))}
DaysParams == {Null, Some(Num(FALSE, <<2, 0, 0>>)), Some(Num(FALSE, <<7>>)),
               Some(Num(FALSE, <<0>>)), Some(Num(TRUE, <<1>>))}

NoBody == [short_code |-> Null, original_url |-> Null]
NoQuery == [limit |-> Null, offset |-> Null, days |-> Null]

Request(ep, k, a, x, p, ua, code, body, query) ==
    [userAgent |-> ua, shortCode |-> code, referer |-> Null, apiKey |-> k,
     authorization |-> a, peer |-> p, xff |-> x, ep |-> ep,
     body |-> body, query |-> query]

Credentials == ApiKeys \X Authorizations
Bearer(t) == Some([scheme |-> "Bearer", token |-> t])
NoCredentials == <<Null, Null>>
KeyOnly == <<Some(internalApiKey), Null>>
TokenOnly == <<Null, Bearer(ValidToken)>>

\* how a client reaches the service: directly, or through proxies that
\* forward its address; with the user agent it sends
Clients ==
    {[xff |-> <<>>, peer |-> Some(AddrPrivate), userAgent |-> Null],
     [xff |-> <<AddrUS>>, peer |-> Some(AddrPrivate),
      userAgent |-> Some(<<"Android", "Mobile", "Chrome">>)],
     [xff |-> <<AddrAU, AddrPrivate>>, peer |-> Some(AddrPrivate),
      userAgent |-> Some(<<"iPad", "Safari">>)]}

TrackRequests(Creds, Cls, Bods) ==
    {Request("track", c[1], c[2], cl.xff, cl.peer, cl.userAgent, "", b, NoQuery) :
        c \in Creds, cl \in Cls, b \in Bods}
ReadRequests(ep, Creds, Cls, Codes, Queries) ==
    {Request(ep, c[1], c[2], cl.xff, cl.peer, cl.userAgent, code, NoBody, q) :
        c \in Creds, cl \in Cls, code \in Codes, q \in Queries}
HistoryQueries ==
    {[limit |-> l, offset |-> o, days |-> Null] : l \in Limits, o \in Offsets}
DailyQueries == {[limit |-> Null, offset |-> Null, days |-> d] : d \in DaysParams}

(***************************************************************************)
(* The initial state: the process has been loaded, the collection holds    *)
(* what earlier runs stored, and a limiter window may already be used up   *)
(* by one address.                                                         *)
(***************************************************************************)
Doc(code, t, geoData) ==
    [shortCode |-> code, originalUrl |-> "https://x.com", timestamp |-> t,
     userAgent |-> Null, referer |-> Null, ipAddress |-> Null]
      @@ (IF geoData = Null THEN NoGeo ELSE geoData[1])
\* short code "a" has old clicks without a location, two located clicks of
\* three days ago and one of twelve hours ago; short code "b" has none
SeedStore ==
    (Doc("a", Start - 8 * DayLen, Null) :> BulkCount)
      @@ (Doc("a", Start - 3 * DayLen, lookupIP(Some("db"), Some(AddrUS))) :> 2)
      @@ (Doc("a", Start - 12 * 60, lookupIP(Some("db"), Some(AddrAU))) :> 1)

NoHits == [track |-> <<>>, api |-> <<>>]
UsedUp == [track |-> Some(AddrUS) :> TrackMax, api |-> Some(AddrUS) :> ApiMax]

\* the requests a limiter has counted within its max were admitted: here
\* all of them at time t
Admissions(h, t) ==
    [a \in {[l |-> l, key |-> key, t |-> t] :
               l \in {"track", "api"}, key \in DOMAIN h["track"] \cup DOMAIN h["api"]}
       |-> Min(Hits(h, a.l, a.key), LimiterMax(a.l))]

NoCall == [fn |-> "none"]

NoResp ==
    [req |-> Request("none", Null, Null, <<>>, Null, Null, "", NoBody, NoQuery),
     status |-> 0, body |-> [error |-> ""], stage |-> "none", user |-> Null]

\* short code "w" has clicks from every further country, one to four each,
\* in cities whose names recur from country to country
WorldClicks ==
    {[doc |-> Doc("w", Start - 2 * DayLen,
                  lookupIP(Some("db"), Some(AddrWorld(i, 1 + (i % 3))))),
      n |-> 1 + (i % 4)] : i \in 1..Len(WorldCountries)}
WorldStore ==
    SeedStore @@ [d \in {c.doc : c \in WorldClicks} |->
                     (CHOOSE c \in WorldClicks : c.doc = d).n]

InitStore(h, s) ==
    /\ now = Start
    /\ ticks = 0
    /\ store = s
    /\ inflight = <<>>
    /\ arrived = 0
    /\ resp = NoResp
    /\ hits = h
    /\ passed = Admissions(h, Start)
    /\ call = NoCall
    /\ queriesTotal = <<>>
    /\ eventsTrackedTotal = 0
    /\ eventsByCountry = <<>>
    /\ eventsByBrowser = <<>>
    /\ eventsByDevice = <<>>
    /\ processingDuration = 0
    /\ reader = Null
    /\ isInitialized = FALSE

InitWith(h) == InitStore(h, SeedStore)

Init == InitWith(NoHits)

(***************************************************************************)
(* Startup and the clock.                                                  *)
(***************************************************************************)
\* an initialization that opens the file without looking for it first
OpenReaderUnchecked(rdr, importOk, fileExists, openOk) ==
    IF importOk /\ openOk THEN Some("GeoLite2-City.mmdb") ELSE rdr

\* the reader after the try block of initGeoIP: the import, existsSync and
\* Reader.open; what the import or the open throws is caught
OpenReader(rdr, importOk, fileExists, openOk) ==
    IF importOk /\ fileExists /\ openOk THEN Some("GeoLite2-City.mmdb") ELSE rdr

\* initGeoIP, run by startServer before app.listen
initGeoIP(importOk, fileExists, openOk) ==
    /\ ~isInitialized
    /\ reader' = OpenReader(reader, importOk, fileExists, openOk)
    /\ isInitialized' = TRUE
    /\ resp' = NoResp
    /\ call' = NoCall
    /\ UNCHANGED <<clock, store, inflight, arrived, limiter, metrics>>

\* time passes; a request does not stay in flight for a day
Tick(d) ==
    /\ ticks < MaxTicks
    /\ d = 1 \/ DOMAIN inflight = {}
    /\ now' = now + d
    /\ ticks' = ticks + 1
    /\ resp' = NoResp
    /\ call' = NoCall
    /\ UNCHANGED <<store, inflight, arrived, limiter, metrics, geoip>>

\* the limiter's window ends: its counters start again
WindowReset(l) ==
    /\ hits[l] # <<>>
    /\ hits' = [hits EXCEPT ![l] = <<>>]
    /\ resp' = NoResp
    /\ call' = NoCall
    /\ UNCHANGED <<clock, store, inflight, arrived, passed, metrics, geoip>>

(***************************************************************************)
(* Requests.                                                               *)
(***************************************************************************)
\* res.status(status).json(body); stage is the last stage of the route the
\* request reached and user is req.user at that point
Respond(req, status, body, stage, user) ==
    resp' = [req |-> req, status |-> status, body |-> body, stage |-> stage,
             user |-> user]

\* app.listen has been called and the model admits one more request
Listening ==
    /\ isInitialized
    /\ arrived < MaxRequests
    /\ Cardinality(DOMAIN inflight) < MaxInflight

\* a middleware chain with the limiter in front of access control
GateLimiterFirst(req, auth, l) ==
    LET lim == RateLimit(l, hits, FALSE, ReqIp(req)) IN
    IF ~lim.next
    THEN [pass |-> FALSE, status |-> 429, error |-> lim.error,
          stage |-> "limiter", hits |-> lim.hits, auth |-> auth]
    ELSE IF ~auth.next
    THEN [pass |-> FALSE, status |-> auth.status, error |-> auth.error,
          stage |-> "auth", hits |-> lim.hits, auth |-> auth]
    ELSE [pass |-> TRUE, status |-> 0, error |-> "",
          stage |-> "handler", hits |-> lim.hits, auth |-> auth]

\* the middleware chain of a route: access control, then the limiter
Gate(req, auth, l) ==
    IF ~auth.next
    THEN [pass |-> FALSE, status |-> auth.status, error |-> auth.error,
          stage |-> "auth", hits |-> hits, auth |-> auth]
    ELSE LET lim == RateLimit(l, hits, auth.isInternalService, ReqIp(req)) IN
         IF ~lim.next
         THEN [pass |-> FALSE, status |-> 429, error |-> lim.error,
               stage |-> "limiter", hits |-> lim.hits, auth |-> auth]
         ELSE [pass |-> TRUE, status |-> 0, error |-> "",
               stage |-> "handler", hits |-> lim.hits, auth |-> auth]

\* the record of the requests the limiters admitted without skipping them
Admit(p, g, l, key, t) ==
    LET a == [l |-> l, key |-> key, t |-> t] IN
    IF ~g.pass \/ LimiterSkip(g.auth.isInternalService) THEN p
    ELSE IF a \in DOMAIN p THEN [p EXCEPT ![a] = @ + 1]
    ELSE p @@ (a :> 1)

Await(req, g, pc, loc) ==
    inflight' = inflight @@
        ((arrived + 1) :> [req |-> req, pc |-> pc, loc |-> loc,
                           isInternalService |-> g.auth.isInternalService,
                           user |-> g.auth.user])

Done(id) == inflight' = [i \in DOMAIN inflight \ {id} |-> inflight[i]]

Resume(id, pc, loc) ==
    inflight' = [inflight EXCEPT ![id].pc = pc, ![id].loc = loc]

\* a catch that answers with the message of the error it caught
FailDetail(ep) == "MongoNetworkError: connect ECONNREFUSED 127.0.0.1:27017"

FailMessage(ep) ==
    CASE ep = "track" -> "Failed to track click"
      [] ep = "stats" -> "Failed to get stats"
      [] ep = "history" -> "Failed to get history"
      [] ep = "daily" -> "Failed to get daily stats"
      [] ep = "geo" -> "Failed to get geographic stats"

\* an awaited store operation rejects: the handler's catch answers 500
StoreFails(id) ==
    /\ id \in DOMAIN inflight
    /\ Respond(inflight[id].req, 500,
               [error |-> FailMessage(inflight[id].req.ep)], "handler",
               inflight[id].user)
    /\ Done(id)
    /\ call' = NoCall
    /\ UNCHANGED <<clock, store, arrived, limiter, metrics, geoip>>

(***************************************************************************)
(* POST /api/analytics/track                                               *)
(***************************************************************************)
\* the address of the connection, whatever the proxies forwarded
ipAddressOfPeer(req) == req.peer

\* req.ip || req.headers['x-forwarded-for']?.split(',')[0] || null
ipAddressOf(req) ==
    IF ReqIp(req) # Null THEN ReqIp(req)
    ELSE IF req.xff # <<>> THEN Some(req.xff[1]) ELSE Null

\* req.headers['user-agent'] || null
userAgentOf(req) == IF req.userAgent = Some(<<>>) THEN Null ELSE req.userAgent

\* a validation that looks at short_code only
MissingShortCode(body) == StrOrNull(body.short_code) = Null

\* !short_code || !original_url
MissingField(body) ==
    StrOrNull(body.short_code) = Null \/ StrOrNull(body.original_url) = Null

\* geoData?.field || null
GeoField(geoData, field) ==
    IF geoData = Null THEN Null ELSE geoData[1][field]

\* a click whose country and city default to 'Unknown' without a location
NewClickUnknown(req, geoData, t) ==
    [shortCode |-> req.body.short_code[1],
     originalUrl |-> req.body.original_url[1],
     timestamp |-> t,
     userAgent |-> userAgentOf(req),
     referer |-> StrOrNull(req.referer),
     ipAddress |-> ipAddressOf(req),
     country |-> IF geoData = Null THEN Some("Unknown")
                 ELSE StrOrNull(GeoField(geoData, "country")),
     countryCode |-> StrOrNull(GeoField(geoData, "countryCode")),
     city |-> IF geoData = Null THEN Some("Unknown")
              ELSE StrOrNull(GeoField(geoData, "city")),
     region |-> StrOrNull(GeoField(geoData, "region")),
     latitude |-> NumOrNull(GeoField(geoData, "latitude")),
     longitude |-> NumOrNull(GeoField(geoData, "longitude")),
     timezone |-> StrOrNull(GeoField(geoData, "timezone"))]

\* new Click({...}), its timestamp defaulting to Date.now
NewClick(req, geoData, t) ==
    [shortCode |-> req.body.short_code[1],
     originalUrl |-> req.body.original_url[1],
     timestamp |-> t,
     userAgent |-> userAgentOf(req),
     referer |-> StrOrNull(req.referer),
     ipAddress |-> ipAddressOf(req),
     country |-> StrOrNull(GeoField(geoData, "country")),
     countryCode |-> StrOrNull(GeoField(geoData, "countryCode")),
     city |-> StrOrNull(GeoField(geoData, "city")),
     region |-> StrOrNull(GeoField(geoData, "region")),
     latitude |-> NumOrNull(GeoField(geoData, "latitude")),
     longitude |-> NumOrNull(GeoField(geoData, "longitude")),
     timezone |-> StrOrNull(GeoField(geoData, "timezone"))]

\* the request up to await click.save()
Track(req) ==
    /\ Listening
    /\ arrived' = arrived + 1
    /\ LET g == Gate(req, allowInternalService(req, now), "track")
           geoData == lookupIP(reader, ipAddressOf(req))
       IN /\ hits' = g.hits
          /\ passed' = Admit(passed, g, "track", ReqIp(req), now)
          /\ IF ~g.pass
             THEN /\ Respond(req, g.status, [error |-> g.error], g.stage,
                          g.auth.user)
                  /\ call' = NoCall
                  /\ UNCHANGED inflight
             ELSE IF MissingField(req.body)
             THEN /\ Respond(req, 400,
                       [error |-> "short_code and original_url are required"],
                       "handler", g.auth.user)
                  /\ call' = NoCall
                  /\ UNCHANGED inflight
             ELSE /\ Await(req, g, "save",
                       [click |-> NewClick(req, geoData, now),
                        geoData |-> geoData])
                  /\ call' = [fn |-> "lookupIP", ip |-> ipAddressOf(req),
                              out |-> geoData]
                  /\ resp' = NoResp
    /\ UNCHANGED <<clock, store, metrics, geoip>>

\* click.save() resolves: the counters, then 201
TrackSaved(id) ==
    /\ id \in DOMAIN inflight
    /\ inflight[id].req.ep = "track"
    /\ inflight[id].pc = "save"
    /\ LET r == inflight[id]
           click == r.loc.click
           geoData == r.loc.geoData
           userAgent == userAgentOf(r.req)
       IN /\ store' = Insert(store, click)
          /\ eventsTrackedTotal' = eventsTrackedTotal + 1
          /\ eventsByCountry' =
                IF geoData # Null /\ StrOrNull(geoData[1].country) # Null
                THEN Inc(eventsByCountry, geoData[1].country[1])
                ELSE eventsByCountry
          /\ eventsByBrowser' = Inc(eventsByBrowser, parseBrowser(userAgent))
          /\ eventsByDevice' = Inc(eventsByDevice, parseDevice(userAgent))
          /\ processingDuration' = processingDuration + 1
          /\ Respond(r.req, 201,
                [message |-> "Click tracked successfully", clickId |-> id],
                "handler", r.user)
    /\ Done(id)
    /\ call' = NoCall
    /\ UNCHANGED <<clock, arrived, limiter, queriesTotal, geoip>>

(***************************************************************************)
(* GET /api/analytics/:shortCode                                           *)
(***************************************************************************)
\* a read request up to its first await
Read(req, auth, label, pc, loc) ==
    /\ Listening
    /\ arrived' = arrived + 1
    /\ LET g == Gate(req, auth, "api")
       IN /\ hits' = g.hits
          /\ passed' = Admit(passed, g, "api", ReqIp(req), now)
          /\ IF ~g.pass
             THEN /\ Respond(req, g.status, [error |-> g.error], g.stage,
                          g.auth.user)
                  /\ UNCHANGED <<inflight, queriesTotal>>
             ELSE /\ queriesTotal' = Inc(queriesTotal, label)
                  /\ Await(req, g, pc, loc)
                  /\ resp' = NoResp
    /\ call' = NoCall
    /\ UNCHANGED <<clock, store, eventMetrics, geoip>>

\* a read request at an await that is not its last
Step(id, ep, pc, next, loc) ==
    /\ id \in DOMAIN inflight
    /\ inflight[id].req.ep = ep
    /\ inflight[id].pc = pc
    /\ Resume(id, next, loc)
    /\ resp' = NoResp
    /\ call' = NoCall
    /\ UNCHANGED <<clock, store, arrived, limiter, metrics, geoip>>

\* a read request at its last await: res.json(body)
Finish(id, ep, pc, body) ==
    /\ id \in DOMAIN inflight
    /\ inflight[id].req.ep = ep
    /\ inflight[id].pc = pc
    /\ Respond(inflight[id].req, 200, body, "handler", inflight[id].user)
    /\ Done(id)
    /\ call' = NoCall
    /\ UNCHANGED <<clock, store, arrived, limiter, metrics, geoip>>

Stats(req) ==
    Read(req, allowInternalService(req, now), "stats", "totalClicks", <<>>)

\* totalClicks resolves; the last24Hours count is issued
StatsTotalClicks(id) ==
    Step(id, "stats", "totalClicks", "last24Hours",
         [totalClicks |->
              CountDocuments(store,
                  {r \in DOMAIN store :
                      r.shortCode = inflight[id].req.shortCode}),
          gte |-> now - H24])

\* last24Hours resolves; the last7Days count is issued
StatsLast24Hours(id) ==
    Step(id, "stats", "last24Hours", "last7Days",
         [totalClicks |-> inflight[id].loc.totalClicks,
          last24Hours |->
              CountDocuments(store,
                  {r \in DOMAIN store :
                      /\ r.shortCode = inflight[id].req.shortCode
                      /\ r.timestamp >= inflight[id].loc.gte}),
          gte |-> now - D7])

\* last7Days resolves; findOne is issued
StatsLast7Days(id) ==
    Step(id, "stats", "last7Days", "lastClick",
         [totalClicks |-> inflight[id].loc.totalClicks,
          last24Hours |-> inflight[id].loc.last24Hours,
          last7Days |->
              CountDocuments(store,
                  {r \in DOMAIN store :
                      /\ r.shortCode = inflight[id].req.shortCode
                      /\ r.timestamp >= inflight[id].loc.gte})])

\* findOne resolves
StatsLastClick(id) ==
    Finish(id, "stats", "lastClick",
           [shortCode |-> inflight[id].req.shortCode,
            totalClicks |-> inflight[id].loc.totalClicks,
            last24Hours |-> inflight[id].loc.last24Hours,
            last7Days |-> inflight[id].loc.last7Days,
            lastClickAt |-> FindLastClick(store, inflight[id].req.shortCode)])

(***************************************************************************)
(* GET /api/analytics/:shortCode/history                                   *)
(***************************************************************************)
History(req) ==
    Read(req, requireAuth(req, now), "history", "find",
         [limit |-> cappedLimit(req.query.limit),
          offset |-> parsedOffset(req.query.offset)])

\* find resolves; the count is issued
HistoryFind(id) ==
    /\ id \in DOMAIN inflight
    /\ inflight[id].req.ep = "history"
    /\ \E clicks \in FindHistory(store, inflight[id].req.shortCode,
                                 inflight[id].loc.offset,
                                 inflight[id].loc.limit) :
          Step(id, "history", "find", "total",
               [limit |-> inflight[id].loc.limit,
                offset |-> inflight[id].loc.offset,
                clicks |-> clicks])

\* the count resolves
HistoryTotal(id) ==
    Finish(id, "history", "total",
           [shortCode |-> inflight[id].req.shortCode,
            total |-> CountDocuments(store,
                          {r \in DOMAIN store :
                      r.shortCode = inflight[id].req.shortCode}),
            limit |-> inflight[id].loc.limit,
            offset |-> inflight[id].loc.offset,
            clicks |-> inflight[id].loc.clicks])

(***************************************************************************)
(* GET /api/analytics/:shortCode/daily                                     *)
(***************************************************************************)
Daily(req) ==
    Read(req, requireAuth(req, now), "daily", "aggregate",
         [days |-> cappedDays(req.query.days),
          startDate |-> now - cappedDays(req.query.days) * DayLen])

\* the aggregate resolves
DailyAggregate(id) ==
    Finish(id, "daily", "aggregate",
           [shortCode |-> inflight[id].req.shortCode,
            days |-> inflight[id].loc.days,
            data |-> LET d == AggregateDaily(store, inflight[id].req.shortCode,
                                             inflight[id].loc.startDate)
                     IN [i \in 1..Len(d) |->
                            [date |-> d[i]._id, clicks |-> d[i].count]]])

(***************************************************************************)
(* GET /api/analytics/:shortCode/geo                                       *)
(***************************************************************************)
Geo(req) == Read(req, requireAuth(req, now), "geo", "countryStats", <<>>)

\* the country aggregate resolves; the city aggregate is issued
GeoCountryStats(id) ==
    Step(id, "geo", "countryStats", "cityStats",
         [countryStats |->
              AggregateCountries(store, inflight[id].req.shortCode)])

\* the city aggregate resolves; the located count is issued
GeoCityStats(id) ==
    Step(id, "geo", "cityStats", "totalWithLocation",
         [countryStats |-> inflight[id].loc.countryStats,
          cityStats |-> AggregateCities(store, inflight[id].req.shortCode)])

\* the located count resolves; the total count is issued
GeoTotalWithLocation(id) ==
    Step(id, "geo", "totalWithLocation", "totalClicks",
         [countryStats |-> inflight[id].loc.countryStats,
          cityStats |-> inflight[id].loc.cityStats,
          totalWithLocation |->
              CountDocuments(store,
                  {r \in DOMAIN store :
                      /\ r.shortCode = inflight[id].req.shortCode
                      /\ r.country # Null})])

\* the total count resolves
GeoTotalClicks(id) ==
    LET cs == inflight[id].loc.countryStats
        ts == inflight[id].loc.cityStats
    IN Finish(id, "geo", "totalClicks",
           [shortCode |-> inflight[id].req.shortCode,
            totalClicks |->
                CountDocuments(store,
                    {r \in DOMAIN store :
                      r.shortCode = inflight[id].req.shortCode}),
            totalWithLocation |-> inflight[id].loc.totalWithLocation,
            countries |->
                [i \in 1..Len(cs) |->
                    [country |-> cs[i]._id.country,
                     countryCode |-> cs[i]._id.countryCode,
                     clicks |-> cs[i].count]],
            cities |->
                [i \in 1..Len(ts) |->
                    [city |-> ts[i]._id.city, country |-> ts[i]._id.country,
                     clicks |-> ts[i].count]]])

(***************************************************************************)
(* The exported functions that no route of the service calls directly.     *)
(***************************************************************************)
\* a request runs through optionalAuth
OptionalAuth(req) ==
    /\ call' = [fn |-> "optionalAuth", req |-> req,
                out |-> optionalAuth(req, now)]
    /\ resp' = NoResp
    /\ UNCHANGED <<clock, store, inflight, arrived, limiter, metrics, geoip>>

\* initGeoIP is called, for the first time or again; the promise it returns
\* resolves
InitGeoIPCall(importOk, fileExists, openOk) ==
    /\ reader' = OpenReader(reader, importOk, fileExists, openOk)
    /\ isInitialized' = TRUE
    /\ call' = [fn |-> "initGeoIP", importOk |-> importOk,
                fileExists |-> fileExists, openOk |-> openOk,
                out |-> "resolved"]
    /\ resp' = NoResp
    /\ UNCHANGED <<clock, store, inflight, arrived, limiter, metrics>>

\* isGeoIPAvailable
isGeoIPAvailable == reader # Null

\* parseBrowser(userAgent) is called
ParseBrowser(userAgent) ==
    /\ call' = [fn |-> "parseBrowser", userAgent |-> userAgent,
                out |-> parseBrowser(userAgent)]
    /\ resp' = NoResp
    /\ UNCHANGED <<clock, store, inflight, arrived, limiter, metrics, geoip>>

\* parseDevice(userAgent) is called
ParseDevice(userAgent) ==
    /\ call' = [fn |-> "parseDevice", userAgent |-> userAgent,
                out |-> parseDevice(userAgent)]
    /\ resp' = NoResp
    /\ UNCHANGED <<clock, store, inflight, arrived, limiter, metrics, geoip>>

\* lookupIP(ipAddress) is called
LookupIP(ipAddress) ==
    /\ call' = [fn |-> "lookupIP", ip |-> ipAddress,
                out |-> lookupIP(reader, ipAddress)]
    /\ resp' = NoResp
    /\ UNCHANGED <<clock, store, inflight, arrived, limiter, metrics, geoip>>

(***************************************************************************)
(* The service.                                                            *)
(***************************************************************************)
Ids == 1..MaxRequests

\* the steps that are not the arrival of a request
Internal ==
    \/ \E i \in BOOLEAN, f \in BOOLEAN, o \in BOOLEAN : initGeoIP(i, f, o)
    \/ \E d \in TickSteps : Tick(d)
    \/ \E l \in {"track", "api"} : WindowReset(l)
    \/ \E id \in Ids : TrackSaved(id)
    \/ \E id \in Ids : StoreFails(id)
    \/ \E id \in Ids : StatsTotalClicks(id)
    \/ \E id \in Ids : StatsLast24Hours(id)
    \/ \E id \in Ids : StatsLast7Days(id)
    \/ \E id \in Ids : StatsLastClick(id)
    \/ \E id \in Ids : HistoryFind(id)
    \/ \E id \in Ids : HistoryTotal(id)
    \/ \E id \in Ids : DailyAggregate(id)
    \/ \E id \in Ids : GeoCountryStats(id)
    \/ \E id \in Ids : GeoCityStats(id)
    \/ \E id \in Ids : GeoTotalWithLocation(id)
    \/ \E id \in Ids : GeoTotalClicks(id)

\* the service under clicks and reads of trusted and signed-in callers
Proxied == {cl \in Clients : cl.xff # <<>>}
Direct == {cl \in Clients : cl.xff = <<>>}
Complete == {b \in Bodies : ~MissingField(b)}
Next ==
    \/ Internal
    \/ \E req \in TrackRequests({KeyOnly}, Clients, Complete) : Track(req)
    \/ \E req \in ReadRequests("stats", {KeyOnly}, Direct, ShortCodes,
                               {NoQuery}) : Stats(req)
    \/ \E req \in ReadRequests("history", {TokenOnly}, Direct, ShortCodes,
                               {NoQuery}) : History(req)
    \/ \E req \in ReadRequests("daily", {TokenOnly}, Direct, ShortCodes,
                               {NoQuery}) : Daily(req)
    \/ \E req \in ReadRequests("geo", {TokenOnly}, Direct, ShortCodes,
                               {NoQuery}) : Geo(req)

Spec == Init /\ [][Next]_vars

\* the service under clicks of trusted callers only
NextIngest ==
    \/ \E i \in BOOLEAN, f \in BOOLEAN, o \in BOOLEAN : initGeoIP(i, f, o)
    \/ \E d \in TickSteps : Tick(d)
    \/ \E id \in Ids : TrackSaved(id)
    \/ \E id \in Ids : StoreFails(id)
    \/ \E req \in TrackRequests({KeyOnly}, Clients, Complete) : Track(req)

SpecIngest == Init /\ [][NextIngest]_vars

\* the service under clicks of trusted callers and geo reads of a signed-in
\* caller
NextGeo ==
    \/ \E i \in BOOLEAN, f \in BOOLEAN, o \in BOOLEAN : initGeoIP(i, f, o)
    \/ \E d \in TickSteps : Tick(d)
    \/ \E l \in {"api"} : WindowReset(l)
    \/ \E id \in Ids : TrackSaved(id)
    \/ \E id \in Ids : StoreFails(id)
    \/ \E id \in Ids : GeoCountryStats(id)
    \/ \E id \in Ids : GeoCityStats(id)
    \/ \E id \in Ids : GeoTotalWithLocation(id)
    \/ \E id \in Ids : GeoTotalClicks(id)
    \/ \E req \in TrackRequests({KeyOnly}, Proxied, Complete) : Track(req)
    \/ \E req \in ReadRequests("geo", {TokenOnly}, Direct, ShortCodes,
                               {NoQuery}) : Geo(req)

SpecGeo == Init /\ [][NextGeo]_vars

\* the service under requests with every combination of credentials, one
\* after the other, from an address that may have used up its limiter
\* windows
InitAccess == \E h \in {NoHits, UsedUp} : InitWith(h)
Known == {cl \in Clients : cl.xff = <<AddrUS>>}
CodeA == {b \in Complete : b.short_code = Some("a")}
Idle == DOMAIN inflight = {} /\ arrived < MaxCallers
NextAccess ==
    \/ Internal
    \/ \E req \in TrackRequests(Credentials, Known, CodeA) :
          Idle /\ Track(req)
    \/ \E req \in ReadRequests("stats", Credentials, Known, {"a"},
                               {NoQuery}) : Idle /\ Stats(req)
    \/ \E req \in ReadRequests("history", Credentials, Known, {"a"},
                               {NoQuery}) : Idle /\ History(req)
    \/ \E req \in ReadRequests("daily", Credentials, Known, {"a"},
                               {NoQuery}) : Idle /\ Daily(req)
    \/ \E req \in ReadRequests("geo", Credentials, Known, {"a"},
                               {NoQuery}) : Idle /\ Geo(req)

SpecAccess == InitAccess /\ [][NextAccess]_vars

\* the service under history and daily reads with every query parameter
NextParams ==
    \/ \E i \in BOOLEAN, f \in BOOLEAN, o \in BOOLEAN : initGeoIP(i, f, o)
    \/ \E d \in TickSteps : Tick(d)
    \/ \E l \in {"api"} : WindowReset(l)
    \/ \E id \in Ids : StoreFails(id)
    \/ \E id \in Ids : HistoryFind(id)
    \/ \E id \in Ids : HistoryTotal(id)
    \/ \E id \in Ids : DailyAggregate(id)
    \/ \E req \in ReadRequests("history", {TokenOnly}, Direct, ShortCodes,
                               HistoryQueries) : History(req)
    \/ \E req \in ReadRequests("daily", {TokenOnly}, Direct, ShortCodes,
                               DailyQueries) : Daily(req)

SpecParams == Init /\ [][NextParams]_vars

\* the service under clicks and point-stats reads of trusted and signed-in
\* callers at three addresses, one request after the other, with limiter
\* windows that one address may have used up
NextLimiter ==
    \/ \E i \in BOOLEAN, f \in BOOLEAN, o \in BOOLEAN : initGeoIP(i, f, o)
    \/ \E d \in TickSteps : Tick(d)
    \/ \E l \in {"track", "api"} : WindowReset(l)
    \/ \E id \in Ids : TrackSaved(id)
    \/ \E id \in Ids : StoreFails(id)
    \/ \E id \in Ids : StatsTotalClicks(id)
    \/ \E id \in Ids : StatsLast24Hours(id)
    \/ \E id \in Ids : StatsLast7Days(id)
    \/ \E id \in Ids : StatsLastClick(id)
    \/ \E req \in TrackRequests({KeyOnly, TokenOnly}, Clients, CodeA) :
          Idle /\ Track(req)
    \/ \E req \in ReadRequests("stats", {KeyOnly, TokenOnly}, Clients, {"a"},
                               {NoQuery}) : Idle /\ Stats(req)

SpecLimiter == InitAccess /\ [][NextLimiter]_vars

\* the service under clicks with complete and incomplete bodies, of a trusted
\* and of a signed-in caller that may have used up its window
NextValidate ==
    \/ \E i \in BOOLEAN, f \in BOOLEAN, o \in BOOLEAN : initGeoIP(i, f, o)
    \/ \E d \in TickSteps : Tick(d)
    \/ \E l \in {"track"} : WindowReset(l)
    \/ \E id \in Ids : TrackSaved(id)
    \/ \E id \in Ids : StoreFails(id)
    \/ \E req \in TrackRequests({KeyOnly, TokenOnly}, Known, Bodies) :
          Listening /\ Track(req)

SpecValidate == InitAccess /\ [][NextValidate]_vars

\* the service under reads of a short code without clicks, by a signed-in
\* caller, while a trusted caller's clicks of another short code are stored
\* no other read is in flight
OneRead == \A i \in DOMAIN inflight : inflight[i].req.ep = "track"
NextReads ==
    \/ Internal
    \/ \E req \in TrackRequests({KeyOnly}, Known, CodeA) : Track(req)
    \/ \E req \in ReadRequests("stats", {TokenOnly}, Direct, {"b"},
                               {NoQuery}) : OneRead /\ Stats(req)
    \/ \E req \in ReadRequests("history", {TokenOnly}, Direct, {"b"},
                               {NoQuery}) : OneRead /\ History(req)
    \/ \E req \in ReadRequests("daily", {TokenOnly}, Direct, {"b"},
                               {NoQuery}) : OneRead /\ Daily(req)
    \/ \E req \in ReadRequests("geo", {TokenOnly}, Direct, {"b"},
                               {NoQuery}) : OneRead /\ Geo(req)

SpecReads == Init /\ [][NextReads]_vars

\* the service under daily reads with every days parameter, by a signed-in
\* caller, while a trusted caller's clicks of the same short code are stored
NextDaily ==
    \/ \E i \in BOOLEAN, f \in BOOLEAN, o \in BOOLEAN : initGeoIP(i, f, o)
    \/ \E d \in TickSteps : Tick(d)
    \/ \E l \in {"api"} : WindowReset(l)
    \/ \E id \in Ids : TrackSaved(id)
    \/ \E id \in Ids : StoreFails(id)
    \/ \E id \in Ids : DailyAggregate(id)
    \/ \E req \in TrackRequests({KeyOnly}, Known, CodeA) : Track(req)
    \/ \E req \in ReadRequests("daily", {TokenOnly}, Direct, {"a"},
                               DailyQueries) : OneRead /\ Daily(req)

SpecDaily == Init /\ [][NextDaily]_vars

\* the service under geo reads of a short code with clicks from more
\* countries and cities than a breakdown lists, by a signed-in caller, while
\* a trusted caller's clicks of that short code are stored
WorldBody == {[short_code |-> Some("w"), original_url |-> Some("https://x.com")]}
InitWorld == InitStore(NoHits, WorldStore)
NextWorld ==
    \/ \E i \in BOOLEAN, f \in BOOLEAN, o \in BOOLEAN : initGeoIP(i, f, o)
    \/ \E d \in TickSteps : Tick(d)
    \/ \E l \in {"api"} : WindowReset(l)
    \/ \E id \in Ids : TrackSaved(id)
    \/ \E id \in Ids : StoreFails(id)
    \/ \E id \in Ids : GeoCountryStats(id)
    \/ \E id \in Ids : GeoCityStats(id)
    \/ \E id \in Ids : GeoTotalWithLocation(id)
    \/ \E id \in Ids : GeoTotalClicks(id)
    \/ \E req \in TrackRequests({KeyOnly}, Known, WorldBody) : Track(req)
    \/ \E req \in ReadRequests("geo", {TokenOnly}, Direct, {"w"},
                               {NoQuery}) : OneRead /\ Geo(req)

SpecWorld == InitWorld /\ [][NextWorld]_vars

\* optionalAuth under every combination of credentials and lookupIP under
\* addresses of every kind, before and after initGeoIP and as time passes
PlainRequests ==
    {Request("none", c[1], c[2], <<>>, Some(AddrPrivate), Null, "", NoBody,
             NoQuery) : c \in Credentials}
Addresses ==
    {Null, Some(Txt("")), Some(Txt("localhost")), Some(Txt("LOCALHOST")),
     Some(Txt("::1")), Some(Txt("fe80::1")), Some(Txt("FE80::1")),
     Some(Txt("not-an-address")),
     Some(V4(10, 0, 0, 5)), Some(V4(11, 0, 0, 5)),
     Some(V4(172, 15, 0, 1)), Some(V4(172, 16, 0, 1)),
     Some(V4(172, 31, 255, 1)), Some(V4(172, 32, 0, 1)),
     Some(V4(192, 168, 1, 1)), Some(V4(192, 169, 1, 1)),
     Some(V4(127, 0, 0, 1)), Some(V4(128, 0, 0, 1)),
     Some(AddrUS), Some(AddrAU), Some(AddrUnknown), Some(AddrWorld(1, 1))}
NextUtil ==
    \/ \E i \in BOOLEAN, f \in BOOLEAN, o \in BOOLEAN : initGeoIP(i, f, o)
    \/ \E d \in TickSteps : Tick(d)
    \/ \E req \in PlainRequests : OptionalAuth(req)
    \/ \E ip \in Addresses : LookupIP(ip)

SpecUtil == Init /\ [][NextUtil]_vars

\* the service under a trusted caller's clicks from a private address, from
\* an address the database does not contain, from one it fails on and from
\* one it contains, with the resolver enabled or disabled
Unlocatable ==
    {[xff |-> <<>>, peer |-> Some(AddrPrivate), userAgent |-> Null],
     [xff |-> <<AddrUnknown>>, peer |-> Some(AddrPrivate), userAgent |-> Null],
     [xff |-> <<Txt("not-an-address")>>, peer |-> Some(AddrPrivate),
      userAgent |-> Null]}
NextMiss ==
    \/ \E i \in BOOLEAN, f \in BOOLEAN, o \in BOOLEAN : initGeoIP(i, f, o)
    \/ \E d \in TickSteps : Tick(d)
    \/ \E id \in Ids : TrackSaved(id)
    \/ \E id \in Ids : StoreFails(id)
    \/ \E req \in TrackRequests({KeyOnly}, Unlocatable \cup Known, CodeA) :
          Track(req)

SpecMiss == Init /\ [][NextMiss]_vars

\* the service under requests of all five endpoints, with a bearer token
\* and without credentials, and with complete and incomplete bodies, from an address that
\* may have used up its limiter windows; every awaited store operation
\* resolves or rejects in the end
Anyone == {TokenOnly, NoCredentials}
Resolve(id) ==
    \/ TrackSaved(id)
    \/ StoreFails(id)
    \/ StatsTotalClicks(id)
    \/ StatsLast24Hours(id)
    \/ StatsLast7Days(id)
    \/ StatsLastClick(id)
    \/ HistoryFind(id)
    \/ HistoryTotal(id)
    \/ DailyAggregate(id)
    \/ GeoCountryStats(id)
    \/ GeoCityStats(id)
    \/ GeoTotalWithLocation(id)
    \/ GeoTotalClicks(id)
NextAnswered ==
    \/ \E i \in BOOLEAN, f \in BOOLEAN, o \in BOOLEAN : initGeoIP(i, f, o)
    \/ \E id \in Ids : Resolve(id)
    \/ \E req \in TrackRequests(Anyone, Known, Bodies \ CodeA) : Track(req)
    \/ \E req \in ReadRequests("stats", Anyone, Known, {"b"}, {NoQuery}) :
          OneRead /\ Stats(req)
    \/ \E req \in ReadRequests("history", Anyone, Known, {"b"}, {NoQuery}) :
          OneRead /\ History(req)
    \/ \E req \in ReadRequests("daily", Anyone, Known, {"b"}, {NoQuery}) :
          OneRead /\ Daily(req)
    \/ \E req \in ReadRequests("geo", Anyone, Known, {"b"}, {NoQuery}) :
          OneRead /\ Geo(req)

SpecAnswered ==
    /\ InitAccess
    /\ [][NextAnswered]_vars
    /\ \A id \in Ids : WF_vars(Resolve(id))

\* the same requests, and those of a trusted caller, through the stages of
\* their routes
Callers == {KeyOnly, TokenOnly, NoCredentials}
NextStages ==
    \/ \E i \in BOOLEAN, f \in BOOLEAN, o \in BOOLEAN : initGeoIP(i, f, o)
    \/ \E l \in {"track", "api"} : WindowReset(l)
    \/ \E id \in Ids : Resolve(id)
    \/ \E req \in TrackRequests(Callers, Known, Bodies \ CodeA) : Track(req)
    \/ \E req \in ReadRequests("stats", Callers, Known, {"b"}, {NoQuery}) :
          OneRead /\ Stats(req)
    \/ \E req \in ReadRequests("history", Callers, Known, {"b"}, {NoQuery}) :
          OneRead /\ History(req)
    \/ \E req \in ReadRequests("daily", Callers, Known, {"b"}, {NoQuery}) :
          OneRead /\ Daily(req)
    \/ \E req \in ReadRequests("geo", Callers, Known, {"b"}, {NoQuery}) :
          OneRead /\ Geo(req)

SpecStages == InitAccess /\ [][NextStages]_vars

\* the service under history reads, page by page, of a short code whose
\* newest click is followed by two clicks of one and the same time, by a
\* signed-in caller and with no click ingested meanwhile
PageStore ==
    SeedStore
      @@ (Doc("h", Start - 60, Null) :> 1)
      @@ (Doc("h", Start - 120, lookupIP(Some("db"), Some(AddrUS))) :> 1)
      @@ (Doc("h", Start - 120, lookupIP(Some("db"), Some(AddrAU))) :> 1)
PageQueries ==
    {[limit |-> l, offset |-> o, days |-> Null] :
        l \in {Null, Some(Num(FALSE, <<2>>))},
        o \in {Null, Some(Num(FALSE, <<2>>)), Some(Num(FALSE, <<4>>))}}
NextPages ==
    \/ \E i \in BOOLEAN, f \in BOOLEAN, o \in BOOLEAN : initGeoIP(i, f, o)
    \/ \E d \in {1} : Tick(d)
    \/ \E id \in Ids : StoreFails(id)
    \/ \E id \in Ids : HistoryFind(id)
    \/ \E id \in Ids : HistoryTotal(id)
    \/ \E req \in ReadRequests("history", {TokenOnly}, Direct, {"h"},
                               PageQueries) : History(req)

SpecPages == InitStore(NoHits, PageStore) /\ [][NextPages]_vars

\* the service under clicks only: with the internal key, with a bearer token
\* and without credentials, with complete and incomplete bodies, from an
\* address the database contains, which may have used up its window, and
\* from a private one
NextCounters ==
    \/ \E i \in BOOLEAN, f \in BOOLEAN, o \in BOOLEAN : initGeoIP(i, f, o)
    \/ \E l \in {"track"} : WindowReset(l)
    \/ \E id \in Ids : TrackSaved(id)
    \/ \E id \in Ids : StoreFails(id)
    \/ \E req \in TrackRequests(Callers, Known \cup Direct, Bodies \ CodeA) :
          Track(req)

SpecCounters == InitAccess /\ [][NextCounters]_vars

\* the resolver under calls of initGeoIP, with the library, the file and its
\* opening each present or failing, and under lookups before, between and
\* after them
NextResolver ==
    \/ \E i \in BOOLEAN, f \in BOOLEAN, o \in BOOLEAN : InitGeoIPCall(i, f, o)
    \/ \E d \in TickSteps : Tick(d)
    \/ \E ip \in Addresses : LookupIP(ip)

SpecResolver == Init /\ [][NextResolver]_vars

\* the service under a trusted caller's clicks that arrive directly, through
\* one proxy, through two proxies, and over a connection whose peer address
\* is no longer known
NoPeer == {[xff |-> <<>>, peer |-> Null, userAgent |-> Null]}
NextAddress ==
    \/ \E i \in BOOLEAN, f \in BOOLEAN, o \in BOOLEAN : initGeoIP(i, f, o)
    \/ \E d \in TickSteps : Tick(d)
    \/ \E id \in Ids : TrackSaved(id)
    \/ \E id \in Ids : StoreFails(id)
    \/ \E req \in TrackRequests({KeyOnly}, Clients \cup NoPeer, CodeA) :
          Track(req)

SpecAddress == Init /\ [][NextAddress]_vars

\* the two parsers under no user agent, the empty one, every user agent of
\* up to MaxWords of the words the parsers look for, in capitals, in lower
\* and in upper case, and user agents of browsers, tablets and crawlers
\* as they are sent
Words ==
    {"Firefox", "Edg", "Chrome", "Safari", "Opera", "OPR", "MSIE", "Trident",
     "Mobile", "Android", "Tablet", "iPad", "Googlebot", "Crawler", "Spider",
     "firefox", "chrome", "ipad", "FIREFOX", "CHROME", "IPAD",
     "Mozilla", "Windows"}
SentAgents ==
    {<<"Mozilla", "Windows", "Chrome", "Safari", "Edg">>,
     <<"Mozilla", "Windows", "Chrome", "Safari", "OPR">>,
     <<"Mozilla", "iPad", "Mobile", "Safari">>,
     <<"Mozilla", "Android", "Mobile", "Chrome", "Safari", "Googlebot">>,
     <<"Mozilla", "Android", "Tablet", "Chrome", "Safari">>}
Agents ==
    {Null} \cup {Some(ua) : ua \in SentAgents}
      \cup {Some(ua) : ua \in UNION {[1..n -> Words] : n \in 0..MaxWords}}
\* the parsers keep nothing between calls: a behaviour holds one call
NextParsers ==
    \/ call = NoCall /\ \E userAgent \in Agents : ParseBrowser(userAgent)
    \/ call = NoCall /\ \E userAgent \in Agents : ParseDevice(userAgent)

SpecParsers == Init /\ [][NextParsers]_vars

(***************************************************************************)
(* Properties of the responses under concurrent ingestion.                 *)
(***************************************************************************)
\* C1: every 200 response of the point-stats endpoint has
\* last24Hours <= last7Days <= totalClicks, also while clicks are tracked
\* concurrently.
C1_StatsOrdered ==
    (resp.req.ep = "stats" /\ resp.status = 200) =>
        /\ resp.body.last24Hours <= resp.body.last7Days
        /\ resp.body.last7Days <= resp.body.totalClicks

\* the bearer token of the request verifies at time t
ValidBearer(req, t) ==
    /\ req.authorization # Null
    /\ req.authorization[1].scheme = "Bearer"
    /\ LET token == req.authorization[1].token
       IN /\ token.wellFormed
          /\ token.key = jwtSecret
          /\ token.nbf = Null \/ token.nbf[1] <= t
          /\ token.exp = Null \/ t < token.exp[1]

\* what the point-stats endpoint reports for a code when nothing else runs
PointStats(s, t, code) ==
    [totalClicks |-> CountDocuments(s, {r \in DOMAIN s : r.shortCode = code}),
     last24Hours |-> CountDocuments(s,
         {r \in DOMAIN s : r.shortCode = code /\ r.timestamp >= t - H24}),
     last7Days |-> CountDocuments(s,
         {r \in DOMAIN s : r.shortCode = code /\ r.timestamp >= t - D7}),
     lastClickAt |-> FindLastClick(s, code)]

\* the step answers a track request that carried valid credentials, was not
\* rate limited and had both fields
TrackEligible ==
    /\ resp'.req.ep = "track"
    /\ verifyInternalApiKey(resp'.req) \/ ValidBearer(resp'.req, now')
    /\ resp'.status # 429
    /\ ~MissingField(resp'.req.body)

\* the step adds exactly one record, of the given code, and the point stats
\* of that code read one higher after it
AddsOneClick(code) ==
    LET before == PointStats(store, now, code)
        after == PointStats(store', now', code)
    IN /\ after.totalClicks = before.totalClicks + 1
       /\ after.last24Hours = before.last24Hours + 1
       /\ after.last7Days = before.last7Days + 1
       /\ after.lastClickAt # Null
       /\ \A d \in DOMAIN store \cup DOMAIN store' :
             d.shortCode # code =>
                 /\ d \in DOMAIN store /\ d \in DOMAIN store'
                 /\ store'[d] = store[d]

\* C2 as stated: every track request with valid credentials, not rate
\* limited and with both fields is answered 201 and adds exactly one record
\* for its short code, so that the point stats read one higher than before
\* for the total, 24-hour and 7-day counts, with a last click time; the
\* records of other short codes are unchanged.
C2_TrackAlwaysCreated ==
    [][resp'.req.ep = "track" =>
          /\ TrackEligible => resp'.status = 201
          /\ resp'.status = 201 => AddsOneClick(resp'.req.body.short_code[1])]_vars

\* C2, amended: such a request is answered 201, or 500 when the store write
\* fails; every 201 adds exactly one record for its short code, so that the
\* point stats read one higher than before for the total, 24-hour and 7-day
\* counts, with a last click time; the records of other short codes are
\* unchanged.
C2_TrackCreatedUnlessStoreFails ==
    [][resp'.req.ep = "track" =>
          /\ TrackEligible => resp'.status \in {201, 500}
          /\ resp'.status = 201 => AddsOneClick(resp'.req.body.short_code[1])]_vars

\* a second identical click of the same minute has been recorded
C2_Witness ==
    /\ resp.req.ep = "track"
    /\ resp.status = 201
    /\ \E d \in DOMAIN store :
          d.shortCode = "b" /\ d.timestamp >= Start /\ store[d] = 2

RECURSIVE SumClicks(_)
SumClicks(rows) ==
    IF rows = <<>> THEN 0 ELSE rows[1].clicks + SumClicks(Tail(rows))

(***************************************************************************)
(* Properties of access control and of the limiters' skip.                 *)
(***************************************************************************)
\* the step receives a request
Arriving == arrived' = arrived + 1
\* the request the step receives
ArrivedReq == IF resp' # NoResp THEN resp'.req ELSE inflight'[arrived + 1].req
\* req.user after access control let the received request through
ArrivedUser ==
    IF resp' # NoResp THEN resp'.user ELSE inflight'[arrived + 1].user
\* access control let the received request through to the limiter
PassedAccess == resp' = NoResp \/ resp'.stage # "auth"
\* access control answered the received request 401 with this message, and
\* nothing behind it ran: no limiter count, no query, no counter, no write
Refused(error) ==
    /\ resp'.status = 401
    /\ resp'.body = [error |-> error]
    /\ resp'.stage = "auth"
    /\ UNCHANGED <<inflight, store, hits, metrics>>

UserOnly == {"history", "daily", "geo"}
TrustedOrUser == {"track", "stats"}

\* C3: the history, daily and geo endpoints answer 401 with no click data,
\* without a store query and without a query count, to every request that
\* has no valid bearer token, also to one that has only a valid internal key.
C3_UserOnlyRefuses ==
    [][(Arriving /\ ArrivedReq.ep \in UserOnly
          /\ ~ValidBearer(ArrivedReq, now)) =>
         \E error \in {"Authentication required", "Invalid token",
                        "Token expired"} : Refused(error)]_vars

\* a geo request with only a valid internal key has been answered 401
C3_Witness ==
    /\ resp.req.ep = "geo"
    /\ resp.status = 401
    /\ verifyInternalApiKey(resp.req)
    /\ resp.req.authorization = Null

\* C4: a track or point-stats request gets past access control exactly when
\* it has a valid internal key or a valid bearer token, either one
\* sufficing; one with neither is answered 401 and its handler never runs.
C4_TrustedOrUserAdmits ==
    [][(Arriving /\ ArrivedReq.ep \in TrustedOrUser) =>
         IF verifyInternalApiKey(ArrivedReq) \/ ValidBearer(ArrivedReq, now)
         THEN PassedAccess
         ELSE \E error \in {"Authentication required", "Invalid token",
                             "Token expired"} : Refused(error)]_vars

\* a track request with a wrong key and a valid token is awaiting its save
C4_Witness ==
    \E id \in DOMAIN inflight :
        /\ inflight[id].req.ep = "track"
        /\ inflight[id].req.apiKey = Some("wrong-key")
        /\ ValidBearer(inflight[id].req, now)

\* C5: requireAuth answers 401 'Authentication required' without a Bearer
\* header, 401 'Invalid token' for a token whose signature or structure is
\* invalid, 401 'Token expired' for an expired one, never another status for
\* a verification failure, and otherwise passes the request on once with
\* req.user holding the token's userId.
C5_RequireAuthOutcomes ==
    [][(Arriving /\ (ArrivedReq.ep \in UserOnly
                       \/ ~verifyInternalApiKey(ArrivedReq))) =>
         LET header == ArrivedReq.authorization IN
         IF header = Null \/ header[1].scheme # "Bearer"
         THEN Refused("Authentication required")
         ELSE LET token == header[1].token IN
              IF ~token.wellFormed \/ token.key # jwtSecret
              THEN Refused("Invalid token")
              ELSE IF (token.nbf = Null \/ token.nbf[1] <= now)
                      /\ token.exp # Null /\ now >= token.exp[1]
              THEN Refused("Token expired")
              ELSE IF ~ValidBearer(ArrivedReq, now)
              THEN resp'.status = 401 /\ resp'.stage = "auth"
              ELSE /\ PassedAccess
                   /\ ArrivedUser = Some([userId |-> token.userId])]_vars

\* a history request with an expired token has been answered 'Token expired'
C5_Witness ==
    /\ resp.req.ep = "history"
    /\ resp.status = 401
    /\ resp.body = [error |-> "Token expired"]
    /\ resp.req.authorization = Bearer(ExpiredToken)

\* C10: a request that access control classified as internal is never
\* answered 429 and never counted by a limiter, however many requests its
\* address has made in the window.
C10_InternalNeverLimited ==
    [][(Arriving /\ ArrivedReq.ep \in TrustedOrUser
          /\ verifyInternalApiKey(ArrivedReq)) =>
         /\ resp'.status # 429
         /\ hits' = hits]_vars

\* a track request with the internal key is awaiting its save although its
\* address has used up both windows
C10_Witness ==
    \E id \in DOMAIN inflight :
        /\ inflight[id].req.ep = "track"
        /\ inflight[id].isInternalService
        /\ Hits(hits, "track", ReqIp(inflight[id].req)) >= TrackMax
        /\ Hits(hits, "api", ReqIp(inflight[id].req)) >= ApiMax

(***************************************************************************)
(* Properties of the query parameters.                                     *)
(***************************************************************************)
\* the integer a query parameter asks for, or the default when it is absent
Requested(q, default) == IF q = Null THEN default ELSE parseInt(q[1])
Clamp(n, low, high) == Max(low, Min(n, high))

\* C6: a 200 response of the history endpoint never has more than 100 items
\* and never echoes a limit above 100, whatever limit was requested.
C6_HistoryAtMost100 ==
    (resp.req.ep = "history" /\ resp.status = 200) =>
        /\ Len(resp.body.clicks) <= 100
        /\ resp.body.limit <= 100

\* C7: the limit the history endpoint applies and echoes is
\* max(1, min(limit, 100)) for every requested integer limit.
C7_HistoryLimitClamped ==
    (resp.req.ep = "history" /\ resp.status = 200) =>
        LET limit == Clamp(Requested(resp.req.query.limit, 100), 1, 100)
        IN /\ resp.body.limit = limit
           /\ Len(resp.body.clicks) <= limit

\* C8: the days the daily endpoint echoes are max(1, min(days, 90)) for every
\* requested integer days, and its window starts that many days before now.
C8_DailyDaysClamped ==
    [][/\ (Arriving /\ ArrivedReq.ep = "daily" /\ resp' = NoResp) =>
            inflight'[arrived + 1].loc.startDate =
                now - Clamp(Requested(ArrivedReq.query.days, 30), 1, 90) * DayLen
       /\ (resp'.req.ep = "daily" /\ resp'.status = 200) =>
            resp'.body.days =
                Clamp(Requested(resp'.req.query.days, 30), 1, 90)]_vars

(***************************************************************************)
(* Properties of the geo breakdown.                                        *)
(***************************************************************************)
\* C9: every geo response has totalWithLocation <= totalClicks and the sum
\* of its per-country counts <= totalWithLocation, also while clicks are
\* ingested concurrently.
C9_GeoTotalsOrdered ==
    (resp.req.ep = "geo" /\ resp.status = 200) =>
        /\ resp.body.totalWithLocation <= resp.body.totalClicks
        /\ SumClicks(resp.body.countries) <= resp.body.totalWithLocation

\* a geo response whose located clicks grew between its country aggregate
\* and its located count
C9_Witness ==
    /\ resp.req.ep = "geo"
    /\ resp.status = 200
    /\ 0 < SumClicks(resp.body.countries)
    /\ SumClicks(resp.body.countries) < resp.body.totalWithLocation
    /\ resp.body.totalWithLocation < resp.body.totalClicks

(***************************************************************************)
(* Properties of the limiters.                                             *)
(***************************************************************************)
\* the limiter in front of an endpoint
LimiterOf(ep) == IF ep = "track" THEN "track" ELSE "api"

\* the requests of key that limiter l admitted at the times in T
RECURSIVE PassedAt(_, _, _)
PassedAt(l, key, T) ==
    IF T = {} THEN 0
    ELSE LET t == CHOOSE x \in T : TRUE
             a == [l |-> l, key |-> key, t |-> t]
         IN (IF a \in DOMAIN passed THEN passed[a] ELSE 0)
              + PassedAt(l, key, T \ {t})

PassTimes == {a.t : a \in DOMAIN passed}

\* C11: in every rolling interval of 15 minutes the general limiter admits at
\* most 100 read requests of one non-internal caller, and in every rolling
\* minute the ingestion limiter admits at most 60 of its track requests; a
\* request beyond the cap is answered 429 with the limiter's JSON error
\* message and does not reach the handler.
C11_RollingWindowCap ==
    /\ \A a \in DOMAIN passed : \A end \in PassTimes :
          PassedAt(a.l, a.key,
                   {t \in PassTimes : end - LimiterWindow(a.l) < t /\ t <= end})
            <= LimiterMax(a.l)
    /\ resp.status = 429 =>
          /\ resp.stage = "limiter"
          /\ resp.body = [error |-> LimiterMessage(LimiterOf(resp.req.ep))]
          /\ arrived \notin DOMAIN inflight

\* the address a request comes from: the first address its proxies forwarded,
\* else the address of the connection
CallerAddress(req) == IF req.xff = <<>> THEN req.peer ELSE Some(req.xff[1])

LimiterKeys ==
    DOMAIN hits["track"] \cup DOMAIN hits["api"]
      \cup DOMAIN hits'["track"] \cup DOMAIN hits'["api"]

\* C12: the limiter counters are partitioned per caller address and per
\* limiter: a request changes no counter of another address, and no counter
\* of the limiter of the other endpoint class.
C12_CountersPartitioned ==
    [][Arriving =>
          \A l \in {"track", "api"} : \A key \in LimiterKeys :
             (l # LimiterOf(ArrivedReq.ep) \/ key # CallerAddress(ArrivedReq))
                => Hits(hits', l, key) = Hits(hits, l, key)]_vars

\* a second address has had one track request counted while the first
\* address has used up both of its windows
C12_Witness ==
    /\ Hits(hits, "track", Some(AddrUS)) = TrackMax
    /\ Hits(hits, "api", Some(AddrUS)) = ApiMax
    /\ Hits(hits, "track", Some(AddrAU)) = 1
    /\ Hits(hits, "api", Some(AddrAU)) = 0
    /\ resp.req.ep = "track"
    /\ resp.status = 201


(***************************************************************************)
(* Properties of ingestion.                                                *)
(***************************************************************************)
\* the body has no short_code or no original_url: the field is missing or
\* is the empty string
Lacks(body) ==
    \/ body.short_code \in {Null, Some("")}
    \/ body.original_url \in {Null, Some("")}

\* the step receives a track request that passes access control
AuthorizedTrack ==
    /\ Arriving
    /\ ArrivedReq.ep = "track"
    /\ verifyInternalApiKey(ArrivedReq) \/ ValidBearer(ArrivedReq, now)

\* the step stores no record, makes no geolocation lookup and updates no
\* event counter nor the processing histogram
NothingRecorded ==
    /\ store' = store
    /\ inflight' = inflight
    /\ call'.fn # "lookupIP"
    /\ eventMetrics' = eventMetrics

\* C13 as stated: an authorized track request whose body lacks short_code or
\* original_url is answered 400, and no record is stored, no geolocation
\* lookup is made and no event counter nor the histogram is updated.
C13_MissingFieldAnswered400 ==
    [][(AuthorizedTrack /\ Lacks(ArrivedReq.body)) =>
          /\ resp'.status = 400
          /\ NothingRecorded]_vars

\* C13, amended: such a request is answered 400 unless the ingestion limiter
\* answers it 429; either way no record is stored, no geolocation lookup is
\* made and no event counter nor the histogram is updated.
C13_MissingFieldRejected ==
    [][(AuthorizedTrack /\ Lacks(ArrivedReq.body)) =>
          /\ resp'.status \in {400, 429}
          /\ resp'.status = 429 =>
                /\ ~verifyInternalApiKey(ArrivedReq)
                /\ Hits(hits, "track", CallerAddress(ArrivedReq)) >= TrackMax
          /\ NothingRecorded]_vars

\* a signed-in caller's click with an empty original_url has been answered
\* 400 while the resolver is enabled
C13_Witness ==
    /\ resp.req.ep = "track"
    /\ resp.status = 400
    /\ resp.req.body.original_url = Some("")
    /\ resp.req.apiKey = Null
    /\ reader # Null
    /\ call.fn = "none"
    /\ store = SeedStore
    /\ eventsTrackedTotal = 0


(***************************************************************************)
(* Properties of the read endpoints.                                       *)
(***************************************************************************)
ReadEndpoints == {"stats", "history", "daily", "geo"}

\* no record of the short code is stored
NoRecords(code) == \A r \in DOMAIN store : r.shortCode # code

\* the zero/empty body of each read endpoint
ZeroBody(ep, body) ==
    CASE ep = "stats" ->
            /\ body.totalClicks = 0
            /\ body.last24Hours = 0
            /\ body.last7Days = 0
            /\ body.lastClickAt = Null
      [] ep = "history" -> body.total = 0 /\ body.clicks = <<>>
      [] ep = "daily" -> body.data = <<>>
      [] ep = "geo" ->
            /\ body.totalClicks = 0
            /\ body.totalWithLocation = 0
            /\ body.countries = <<>>
            /\ body.cities = <<>>

\* the last step answered a read of a short code without records from the
\* handler
AnsweredUnknownCode ==
    /\ resp.req.ep \in ReadEndpoints
    /\ resp.stage = "handler"
    /\ NoRecords(resp.req.shortCode)

UtcDay(t) == t \div DayLen

\* data is the reference grouping of the records of code in s that are not
\* older than start: the calendar days with such a record, each once and in
\* ascending order, with the number of such records of the day
IsDailySeries(data, s, code, start) ==
    LET W == {r \in DOMAIN s : r.shortCode = code /\ r.timestamp >= start}
        OnDay(day) == SumCounts(s, {r \in W : UtcDay(r.timestamp) = day})
    IN /\ \A i \in 1..Len(data) :
             data[i].clicks = OnDay(data[i].date) /\ data[i].clicks > 0
       /\ \A i \in 1..Len(data) : \A j \in 1..Len(data) :
             i < j => data[i].date < data[j].date
       /\ \A r \in W : \E i \in 1..Len(data) : data[i].date = UtcDay(r.timestamp)
       /\ SumClicks(data)
            <= SumCounts(s, {r \in DOMAIN s : r.shortCode = code})

\* C15: the daily series is the reference grouping of the stored records:
\* for the records of the short code with timestamp >= now - days * 24h (now
\* the time of the request, days the echoed number of days) it lists exactly
\* the UTC calendar days with such a record, each once, in ascending order,
\* with the number of such records of the day, no day with a zero count, and
\* counts whose sum is at most the short code's number of records.
C15_DailyIsReferenceGrouping ==
    [][/\ (Arriving /\ ArrivedReq.ep = "daily" /\ resp' = NoResp) =>
             inflight'[arrived + 1].loc.startDate =
                 now - inflight'[arrived + 1].loc.days * DayLen
       /\ \A id \in DOMAIN inflight :
             (/\ id \notin DOMAIN inflight'
              /\ inflight[id].req.ep = "daily"
              /\ resp'.status = 200) =>
                /\ resp'.body.days = inflight[id].loc.days
                /\ IsDailySeries(resp'.body.data, store,
                                 inflight[id].req.shortCode,
                                 inflight[id].loc.startDate)]_vars

\* a series of the last seven days has been answered: the clicks of three and
\* of one day ago and a click stored during the read, without the older ones
C15_Witness ==
    /\ resp.req.ep = "daily"
    /\ resp.status = 200
    /\ resp.body.days = 7
    /\ Len(resp.body.data) = 3
    /\ resp.body.data[1].clicks = 2
    /\ resp.body.data[3].date = UtcDay(Start)
    /\ SumClicks(resp.body.data) < SumCounts(store, DOMAIN store)


\* rows is a top-N of the groups of the records D of s under key: at most n
\* rows, one per group and no group twice, in non-increasing order of count,
\* each with the number of records of its group, all groups when there are
\* at most n, and no group left out that has more records than a row;
\* rowKey[i] is the group of row i
IsTopN(rows, rowKey, s, D, key, n) ==
    LET Groups == {key[r] : r \in D}
        Size(k) == SumCounts(s, {r \in D : key[r] = k})
        Listed == {rowKey[i] : i \in 1..Len(rows)}
    IN /\ Len(rows) <= n
       /\ Len(rows) = Min(n, Cardinality(Groups))
       /\ \A i \in 1..Len(rows) : \A j \in 1..Len(rows) :
             i < j => rows[i].count >= rows[j].count /\ rowKey[i] # rowKey[j]
       /\ \A i \in 1..Len(rows) :
             rowKey[i] \in Groups /\ rows[i].count = Size(rowKey[i])
       /\ \A k \in Groups \ Listed : \A i \in 1..Len(rows) :
             Size(k) <= rows[i].count

Located(s, code) == {r \in DOMAIN s : r.shortCode = code /\ r.country # Null}
InCity(s, code) == {r \in DOMAIN s : r.shortCode = code /\ r.city # Null}

\* the country aggregate of request id resolves in this step
CountryStatsResolve(id) ==
    /\ id \in DOMAIN inflight /\ id \in DOMAIN inflight'
    /\ inflight[id].req.ep = "geo"
    /\ inflight[id].pc = "countryStats" /\ inflight'[id].pc = "cityStats"

\* the city aggregate of request id resolves in this step
CityStatsResolve(id) ==
    /\ id \in DOMAIN inflight /\ id \in DOMAIN inflight'
    /\ inflight[id].req.ep = "geo"
    /\ inflight[id].pc = "cityStats" /\ inflight'[id].pc = "totalWithLocation"

\* the breakdown is answered with the rows of the two aggregates
AnswersAggregates(id) ==
    (/\ id \in DOMAIN inflight /\ id \notin DOMAIN inflight'
     /\ inflight[id].req.ep = "geo" /\ resp'.status = 200) =>
        /\ resp'.body.countries =
              [i \in 1..Len(inflight[id].loc.countryStats) |->
                  [country |-> inflight[id].loc.countryStats[i]._id.country,
                   countryCode |->
                       inflight[id].loc.countryStats[i]._id.countryCode,
                   clicks |-> inflight[id].loc.countryStats[i].count]]
        /\ resp'.body.cities =
              [i \in 1..Len(inflight[id].loc.cityStats) |->
                  [city |-> inflight[id].loc.cityStats[i]._id.city,
                   country |-> inflight[id].loc.cityStats[i]._id.country,
                   clicks |-> inflight[id].loc.cityStats[i].count]]

TopCountries(id) ==
    CountryStatsResolve(id) =>
        LET rows == inflight'[id].loc.countryStats
            D == Located(store, inflight[id].req.shortCode)
        IN IsTopN(rows, [i \in 1..Len(rows) |-> rows[i]._id.country],
                  store, D, [r \in D |-> r.country], 20)

\* C16 as stated: the geo breakdown returns at most 20 countries and at most
\* 10 cities, each list in non-increasing order of clicks and a top-N: no
\* country (city) left out has more clicks than a returned one, and every
\* returned count is the number of stored records of the short code with
\* that non-null country (city).
C16_TopCountriesAndCities ==
    [][\A id \in Ids :
          /\ TopCountries(id)
          /\ CityStatsResolve(id) =>
                LET rows == inflight'[id].loc.cityStats
                    D == InCity(store, inflight[id].req.shortCode)
                IN IsTopN(rows, [i \in 1..Len(rows) |-> rows[i]._id.city],
                          store, D, [r \in D |-> r.city], 10)
          /\ AnswersAggregates(id)]_vars

\* C16, amended: as stated for the countries; a city row stands for a city
\* of a country (the pair of city and country), its count is the number of
\* stored records of the short code with that city and that country, and no
\* such pair left out has more clicks than a returned one.
C16_TopCountriesAndCityPairs ==
    [][\A id \in Ids :
          /\ TopCountries(id)
          /\ CityStatsResolve(id) =>
                LET rows == inflight'[id].loc.cityStats
                    D == InCity(store, inflight[id].req.shortCode)
                IN IsTopN(rows,
                          [i \in 1..Len(rows) |->
                              <<rows[i]._id.city, rows[i]._id.country>>],
                          store, D, [r \in D |-> <<r.city, r.country>>], 10)
          /\ AnswersAggregates(id)]_vars

\* a breakdown of 20 countries and 10 cities has been answered for a short
\* code with clicks from more of both, with two rows of one city name and
\* with a click stored during the read
C16_Witness ==
    /\ resp.req.ep = "geo"
    /\ resp.status = 200
    /\ Len(resp.body.countries) = 20
    /\ Len(resp.body.cities) = 10
    /\ Cardinality({r.country : r \in Located(store, "w")}) > 20
    /\ \E i \in 1..10 : \E j \in 1..10 :
          /\ i # j
          /\ resp.body.cities[i].city = resp.body.cities[j].city
    /\ eventsTrackedTotal > 0


(***************************************************************************)
(* Properties of the middleware functions.                                 *)
(***************************************************************************)
\* the received request is admitted behind access control with this
\* isInternalService and this req.user; a request that is not internal may
\* still be answered by the limiter
AdmittedAs(internal, user) ==
    /\ PassedAccess
    /\ ArrivedUser = user
    /\ resp' = NoResp => inflight'[arrived + 1].isInternalService = internal
    /\ internal => resp'.status # 429

\* C17: allowInternalService marks the request internal and calls next
\* without examining the bearer token exactly when x-internal-api-key is
\* present and equals the configured secret; for every other request its
\* outcome is the one of requireAuth alone, with isInternalService unset.
C17_InternalKeyOrRequireAuth ==
    [][(Arriving /\ ArrivedReq.ep \in TrustedOrUser) =>
          IF ArrivedReq.apiKey = Some(internalApiKey)
          THEN AdmittedAs(TRUE, Null)
          ELSE LET alone == requireAuth(ArrivedReq, now) IN
               IF alone.next THEN AdmittedAs(FALSE, alone.user)
               ELSE /\ resp'.stage = "auth"
                    /\ resp'.status = alone.status
                    /\ resp'.body = [error |-> alone.error]
                    /\ UNCHANGED <<inflight, store, hits, metrics>>]_vars

\* a request with the internal key and a valid bearer token is in flight as
\* an internal request without req.user
C17_Witness ==
    \E id \in DOMAIN inflight :
        /\ inflight[id].req.apiKey = Some(internalApiKey)
        /\ inflight[id].req.authorization = Bearer(ValidToken)
        /\ inflight[id].isInternalService
        /\ inflight[id].user = Null


\* C18: optionalAuth never rejects: for every request its outcome is the one
\* call of next and no response; req.user is the decoded userId when the bearer token
\* verifies and null in every other case (no header, not bearer-shaped,
\* invalid signature, expired).
C18_OptionalAuthNeverRejects ==
    call.fn = "optionalAuth" =>
        /\ call.out.next
        /\ call.out.status = 0
        /\ call.out.user =
              IF ValidBearer(call.req, now)
              THEN Some([userId |-> call.req.authorization[1].token.userId])
              ELSE Null

\* a request whose token has expired meanwhile went through optionalAuth
\* without req.user
C18_Witness ==
    /\ call.fn = "optionalAuth"
    /\ call.req.authorization = Bearer(ValidToken)
    /\ now >= ValidToken.exp[1]
    /\ call.out.next
    /\ call.out.user = Null


(***************************************************************************)
(* Properties of geolocation.                                              *)
(***************************************************************************)
GeoFields ==
    {"country", "countryCode", "city", "region", "latitude", "longitude",
     "timezone"}

\* the value is a location structure
IsLocation(v) == Len(v) = 1 /\ DOMAIN v[1] = GeoFields

\* no address, or the empty one
NoAddress(ip) == ip = Null \/ ip[1] = Txt("")

\* IPv4 10/8, 172.16/12, 192.168/16 and 127/8, IPv6 ::1 and fe80:
\* link-local, and the token localhost
PrivateOrLoopback(a) ==
    \/ /\ a.fam = "v4"
       /\ \/ a.oct[1] = 10
          \/ a.oct[1] = 172 /\ a.oct[2] >= 16 /\ a.oct[2] <= 31
          \/ a.oct[1] = 192 /\ a.oct[2] = 168
          \/ a.oct[1] = 127
    \/ /\ a.fam = "txt"
       /\ a.txt \in {"::1", "fe80::1", "FE80::1", "localhost", "LOCALHOST"}

\* C19: lookupIP never raises to its caller; it returns null for every input
\* that is null or empty, that is a private or loopback address, that is
\* looked up while the resolver is disabled or not yet initialized, or that
\* the database does not contain or fails on; only otherwise does it return
\* a location structure.
C19_LookupNullOrLocation ==
    call.fn = "lookupIP" =>
        IF \/ NoAddress(call.ip)
           \/ PrivateOrLoopback(call.ip[1])
           \/ reader = Null
           \/ ~ReaderCity(call.ip[1]).ok
        THEN call.out = Null
        ELSE IsLocation(call.out)

\* a lookup of the last address of 172.16/12 has returned null while the
\* resolver is enabled
C19_Witness ==
    /\ call.fn = "lookupIP"
    /\ reader # Null
    /\ call.ip = Some(V4(172, 31, 255, 1))
    /\ call.out = Null


\* the step stores exactly one record, of the given short code and with the
\* seven geolocation fields null
StoresUnlocatedClick(code) ==
    \E d \in DOMAIN store' :
        /\ d.shortCode = code
        /\ \A f \in GeoFields : d[f] = Null
        /\ store'[d] = (IF d \in DOMAIN store THEN store[d] ELSE 0) + 1
        /\ \A e \in (DOMAIN store \cup DOMAIN store') \ {d} :
              e \in DOMAIN store /\ e \in DOMAIN store' /\ store'[e] = store[e]

\* the step receives a track request and its lookupIP yields null
LookupMisses ==
    Arriving /\ call'.fn = "lookupIP" /\ call'.out = Null

\* the step answers the track request id, for which lookupIP yielded null
AnswersUnlocated(id) ==
    /\ id \in DOMAIN inflight /\ id \notin DOMAIN inflight'
    /\ inflight[id].req.ep = "track"
    /\ inflight[id].loc.geoData = Null

\* C20 as stated: a geolocation miss or failure never fails ingestion:
\* whenever lookupIP yields null (resolver disabled, private address, address
\* not found, lookup error), an otherwise valid track request still answers
\* 201 and stores a record whose seven geolocation fields are all null.
C20_MissStillAnswers201 ==
    [][/\ LookupMisses => resp' = NoResp /\ arrived + 1 \in DOMAIN inflight'
       /\ \A id \in Ids : AnswersUnlocated(id) =>
             /\ resp'.status = 201
             /\ StoresUnlocatedClick(inflight[id].req.body.short_code[1])]_vars

\* C20, amended: whenever lookupIP yields null, an otherwise valid track
\* request goes on to its save and answers 201 with a stored record whose
\* seven geolocation fields are all null, or 500 with nothing stored when
\* the save itself fails.
C20_MissNeverFailsIngestion ==
    [][/\ LookupMisses => resp' = NoResp /\ arrived + 1 \in DOMAIN inflight'
       /\ \A id \in Ids : AnswersUnlocated(id) =>
             /\ resp'.status \in {201, 500}
             /\ resp'.status = 201 =>
                   StoresUnlocatedClick(inflight[id].req.body.short_code[1])
             /\ resp'.status = 500 => store' = store]_vars

\* a click from an address the database does not contain has been answered
\* 201 while the resolver is enabled, and its record has no country
C20_Witness ==
    /\ resp.req.ep = "track"
    /\ resp.status = 201
    /\ resp.req.xff = <<AddrUnknown>>
    /\ reader # Null
    /\ \E d \in DOMAIN store :
          /\ d.ipAddress = Some(AddrUnknown)
          /\ \A f \in GeoFields : d[f] = Null


(***************************************************************************)
(* Properties of the stored records.                                       *)
(***************************************************************************)
\* the record has the whole geolocation tuple, or nothing of it
GeoTupleWhole(d) ==
    \/ \A f \in GeoFields : d[f] # Null
    \/ \A f \in GeoFields : d[f] = Null

\* C21: every click record that a track request stores has either all seven
\* geolocation fields (country, countryCode, city, region, latitude,
\* longitude, timezone) non-null or all seven null.
C21_GeoTupleAllOrNone ==
    \A d \in DOMAIN store : d.timestamp >= Start => GeoTupleWhole(d)


\* the number of stored records
StoreSize(s) == SumCounts(s, DOMAIN s)

\* the step leaves every stored record in place, as often as it was stored
RecordsKept ==
    \A d \in DOMAIN store : d \in DOMAIN store' /\ store'[d] >= store[d]

\* the step is the arrival or a later await of a read request
ReadStep ==
    \/ Arriving /\ ArrivedReq.ep \in ReadEndpoints
    \/ \E id \in DOMAIN inflight :
          /\ inflight[id].req.ep \in ReadEndpoints
          /\ id \notin DOMAIN inflight' \/ inflight'[id] # inflight[id]

\* the step receives a read request and enters its handler
ReadStarts ==
    Arriving /\ ArrivedReq.ep \in ReadEndpoints /\ resp' = NoResp

Statuses == {200, 201, 400, 401, 429, 500}

\* the message a handler answers when it catches a failure
GenericMessage ==
    [track |-> "Failed to track click", stats |-> "Failed to get stats",
     history |-> "Failed to get history", daily |-> "Failed to get daily stats",
     geo |-> "Failed to get geographic stats"]

\* the step answers the request it receives, which never awaits the store
AnswersArrival ==
    /\ Arriving
    /\ inflight' = inflight

\* the step answers the request id, which leaves the requests in flight
AnswersInflight(id) ==
    /\ ~Arriving
    /\ id \in DOMAIN inflight
    /\ resp'.req = inflight[id].req
    /\ DOMAIN inflight' = DOMAIN inflight \ {id}

\* the step takes in the request it receives without answering it
TakesIn ==
    /\ Arriving
    /\ DOMAIN inflight' = DOMAIN inflight \cup {arrived + 1}
    /\ arrived + 1 \notin DOMAIN inflight

HandlerNotReached ==
    /\ store' = store
    /\ inflight' = inflight
    /\ call'.fn = "none"
    /\ metrics' = metrics

\* the request carries the internal key at an endpoint that accepts it
Trusted(req) == req.ep \in TrustedOrUser /\ verifyInternalApiKey(req)

\* the request carries what the access control of its endpoint asks for
PassesAccess(req) == Trusted(req) \/ ValidBearer(req, now)

\* C24: requests pass access control, then the rate limiter, then the
\* handler: a request answered 401 is answered by access control on arrival,
\* is counted against no rate-limit window and reaches neither the store nor
\* the counters; a request answered 429 has passed access control, is
\* answered by the limiter on arrival and reaches neither the store nor the
\* counters; a request that enters its handler has passed both.
C24_StagesInOrder ==
    [][/\ resp'.status \in {401, 429} => Arriving
       /\ resp'.status = 401 =>
             /\ resp'.stage = "auth"
             /\ limiter' = limiter
             /\ HandlerNotReached
       /\ resp'.status = 429 =>
             /\ resp'.stage = "limiter"
             /\ PassesAccess(resp'.req)
             /\ ~Trusted(resp'.req)
             /\ Hits(hits', LimiterOf(resp'.req.ep), CallerAddress(resp'.req))
                  > LimiterMax(LimiterOf(resp'.req.ep))
             /\ HandlerNotReached
       /\ (Arriving /\ resp'.stage \notin {"auth", "limiter"}) =>
             /\ PassesAccess(ArrivedReq)
             /\ IF Trusted(ArrivedReq) THEN limiter' = limiter
                ELSE Hits(hits', LimiterOf(ArrivedReq.ep),
                          CallerAddress(ArrivedReq))
                       \in 1..LimiterMax(LimiterOf(ArrivedReq.ep))]_vars

\* a request without credentials has been answered 401 from an address whose
\* windows are used up, and none of its windows has counted it
C24_Witness ==
    /\ resp.status = 401
    /\ resp.req.ep = "track"
    /\ resp.req.authorization = Null
    /\ CallerAddress(resp.req) = Some(AddrUS)
    /\ Hits(hits, "track", Some(AddrUS)) = TrackMax
    /\ Hits(hits, "api", Some(AddrUS)) = ApiMax
    /\ arrived = 1


(***************************************************************************)
(* Properties of the history pages.                                        *)
(***************************************************************************)
\* how often x occurs in the sequence
Occurrences(seq, x) == Cardinality({i \in 1..Len(seq) : seq[i] = x})

\* the stored records of the short code
RecordsOf(code) == {r \in DOMAIN store : r.shortCode = code}

\* the history requests whose page has been read
PagesRead ==
    {id \in DOMAIN inflight :
        inflight[id].req.ep = "history" /\ inflight[id].pc = "total"}

\* the pages of the two requests share no record, and each record of the
\* short code is on one of them
DisjointCover(i, j) ==
    \A r \in RecordsOf(inflight[i].req.shortCode) :
        Occurrences(inflight[i].loc.clicks, Select(r))
          + Occurrences(inflight[j].loc.clicks, Select(r))
          = SumCounts(store, {x \in RecordsOf(r.shortCode) : Select(x) = Select(r)})

\* C25: the history page is the newest-first slice of the short code's
\* records: for limit L in [1,100] and offset O >= 0 over N stored records
\* its length is min(L, max(0, N-O)), its items are in descending order of
\* timestamp, total equals N, the offset is echoed unchanged, and the pages
\* at offsets 0, L, 2L, ... are disjoint and together cover all N records
\* while no click is ingested between the reads.
C25_HistoryPagesSlice ==
    /\ (resp.req.ep = "history" /\ resp.status = 200) =>
          LET N == SumCounts(store, RecordsOf(resp.req.shortCode))
              L == Requested(resp.req.query.limit, 100)
              O == Requested(resp.req.query.offset, 0)
              page == resp.body.clicks
          IN (L \in 1..100 /\ O >= 0) =>
                /\ Len(page) = Min(L, Max(0, N - O))
                /\ \A i \in 1..Len(page) : \A j \in 1..Len(page) :
                      i < j => page[i].timestamp >= page[j].timestamp
                /\ resp.body.total = N
                /\ resp.body.offset = O
    /\ \A i \in PagesRead : \A j \in PagesRead :
          LET L == inflight[i].loc.limit
              N == SumCounts(store, RecordsOf(inflight[i].req.shortCode))
          IN (/\ inflight[j].req.shortCode = inflight[i].req.shortCode
              /\ inflight[j].loc.limit = L
              /\ L \in 1..100
              /\ inflight[i].loc.offset = 0
              /\ inflight[j].loc.offset = L
              /\ N <= 2 * L) => DisjointCover(i, j)


(***************************************************************************)
(* Properties of the event counters.                                       *)
(***************************************************************************)
\* the sum of a counter over its labels
RECURSIVE SumLabels(_)
SumLabels(counter) ==
    IF DOMAIN counter = {} THEN 0
    ELSE LET l == CHOOSE x \in DOMAIN counter : TRUE
         IN counter[l] + SumLabels([x \in DOMAIN counter \ {l} |-> counter[x]])

\* the records stored through the track endpoint since the process started
Tracked == {r \in DOMAIN store : r.timestamp >= Start}

\* C26: after any sequence of track requests the total-events counter equals
\* the number of records stored through the track endpoint, and equals both
\* the sum over labels of the by-browser counter and the sum over labels of
\* the by-device counter; the sum of the by-country counter equals the number
\* of those records with non-null country; a track request that ends in 400,
\* 401, 429, or 500 from a failed store write changes none of these counters,
\* stores nothing and is not taken up again.
C26_CountersMatchRecords ==
    /\ [](/\ eventsTrackedTotal = SumCounts(store, Tracked)
          /\ eventsTrackedTotal = SumLabels(eventsByBrowser)
          /\ eventsTrackedTotal = SumLabels(eventsByDevice)
          /\ SumLabels(eventsByCountry)
               = SumCounts(store, {r \in Tracked : r.country # Null}))
    /\ [][(resp'.req.ep = "track" /\ resp'.status \in {400, 401, 429, 500}) =>
             /\ eventMetrics' = eventMetrics
             /\ store' = store
             /\ \A id \in DOMAIN inflight' :
                   id \in DOMAIN inflight /\ inflight'[id] = inflight[id]]_vars

\* one click, from a private address, has been counted under no country
\* while the resolver is enabled, and the save of a second click has failed
\* since and left the counters as they were
C26_Witness ==
    /\ eventsTrackedTotal = 1
    /\ SumLabels(eventsByCountry) = 0
    /\ Value(eventsByBrowser, "unknown") = 1
    /\ resp.req.ep = "track"
    /\ resp.status = 500
    /\ resp.stage = "handler"
    /\ reader # Null


(***************************************************************************)
(* Properties of the resolver's initialization.                            *)
(***************************************************************************)
\* the step is a call of initGeoIP under the conditions of the call before
SameAgain ==
    /\ call.fn = "initGeoIP"
    /\ call'.importOk = call.importOk
    /\ call'.fileExists = call.fileExists
    /\ call'.openOk = call.openOk

\* C27: the resolver is a two-state component: initGeoIP never throws or
\* rejects; after it completes the resolver is initialized, and Ready
\* (isGeoIPAvailable true) exactly when the library loaded and the database
\* file exists and opened successfully, and Disabled otherwise; running
\* initGeoIP again under the same conditions leaves the same state; and in
\* the Disabled or uninitialized state every lookupIP returns null without
\* throwing.
C27_ResolverTwoState ==
    [][/\ call'.fn = "initGeoIP" =>
             /\ call'.out = "resolved"
             /\ isInitialized'
             /\ ~isInitialized =>
                   (isGeoIPAvailable' <=>
                       call'.importOk /\ call'.fileExists /\ call'.openOk)
             /\ SameAgain => geoip' = geoip
       /\ (call'.fn = "lookupIP" /\ ~isGeoIPAvailable) => call'.out = Null]_vars

\* an address the database contains has been looked up to null after an
\* initialization that left the resolver disabled
C27_Witness ==
    /\ call.fn = "lookupIP"
    /\ call.ip = Some(AddrUS)
    /\ call.out = Null
    /\ isInitialized
    /\ ~isGeoIPAvailable


(***************************************************************************)
(* Properties of the client address.                                       *)
(***************************************************************************)
\* the step stores one more record with this client address
StoresAddress(ip) ==
    \E d \in DOMAIN store' :
        /\ d.ipAddress = ip
        /\ store'[d] = (IF d \in DOMAIN store THEN store[d] ELSE 0) + 1

\* C28: the client address stored in a click record and passed to the
\* geolocation lookup is the first entry of the forwarded-for header when
\* that header is present, otherwise the transport-level peer address,
\* otherwise null.
C28_ClientAddress ==
    [][/\ (Arriving /\ ArrivedReq.ep = "track" /\ resp' = NoResp) =>
             /\ call'.fn = "lookupIP"
             /\ call'.ip = CallerAddress(ArrivedReq)
             /\ inflight'[arrived + 1].loc.click.ipAddress
                  = CallerAddress(ArrivedReq)
       /\ \A id \in DOMAIN inflight :
             (/\ id \notin DOMAIN inflight'
              /\ inflight[id].req.ep = "track"
              /\ resp'.status = 201) =>
                StoresAddress(CallerAddress(inflight[id].req))]_vars

\* a click that came through two proxies has been stored with the first
\* forwarded address, next to one stored without an address
C28_Witness ==
    /\ resp.req.ep = "track"
    /\ resp.status = 201
    /\ resp.req.xff = <<AddrAU, AddrPrivate>>
    /\ \E d \in DOMAIN store : d.timestamp >= Start /\ d.ipAddress = Some(AddrAU)
    /\ \E d \in DOMAIN store : d.timestamp >= Start /\ d.ipAddress = Null


(***************************************************************************)
(* Properties of the user-agent parsers.                                   *)
(***************************************************************************)
\* no user agent, or the empty one
NoAgent(userAgent) == userAgent = Null \/ userAgent = Some(<<>>)

\* the user agent contains one of the markers, in whatever case
Contains(userAgent, markers) ==
    \E s \in markers : Includes(ToLowerCase(userAgent[1]), s)

TabletMarkers == {"tablet", "ipad"}
BotMarkers == {"bot", "crawler", "spider"}

\* C29: parseDevice returns 'unknown' exactly when the user agent is null or
\* empty and otherwise exactly one of mobile, tablet, bot, desktop; a user
\* agent that contains 'tablet' or 'ipad' is classified as 'tablet' and one
\* that contains 'bot', 'crawler' or 'spider' (and no tablet marker) as
\* 'bot', whatever other substrings such as 'mobile' or 'android' it also
\* contains.
C29_DeviceClasses ==
    call.fn = "parseDevice" =>
        IF NoAgent(call.userAgent) THEN call.out = "unknown"
        ELSE /\ call.out \in {"mobile", "tablet", "bot", "desktop"}
             /\ Contains(call.userAgent, TabletMarkers) => call.out = "tablet"
             /\ (/\ Contains(call.userAgent, BotMarkers)
                 /\ ~Contains(call.userAgent, TabletMarkers)) =>
                   call.out = "bot"


\* the browsers in the order the claim gives them, each with its markers
BrowserOrder ==
    << [name |-> "Firefox", markers |-> {"firefox"}],
       [name |-> "Edge",    markers |-> {"edg"}],
       [name |-> "Chrome",  markers |-> {"chrome"}],
       [name |-> "Safari",  markers |-> {"safari"}],
       [name |-> "Opera",   markers |-> {"opera", "opr"}],
       [name |-> "IE",      markers |-> {"msie", "trident"}] >>

\* the name of the first browser of the order, from the i-th on, one of
\* whose markers the user agent contains, 'other' when there is none
RECURSIVE FirstBrowser(_, _)
FirstBrowser(userAgent, i) ==
    IF i > Len(BrowserOrder) THEN "other"
    ELSE IF Contains(userAgent, BrowserOrder[i].markers)
         THEN BrowserOrder[i].name
         ELSE FirstBrowser(userAgent, i + 1)

=============================================================================
